---- MODULE Spec2Model ----
(***************************************************************************)
(* Model of the search-terms page (src/app/terms/page.tsx), of the        *)
(* SettingsProvider that feeds it and of the AdGroupAnalyzerProvider      *)
(* (src/lib/contexts/AdGroupAnalyzerContext.tsx).                         *)
(*                                                                         *)
(* Strings are sequences of one-character strings, so that toLowerCase,   *)
(* trim, split, includes and localeCompare are computed, not assumed.     *)
(* Ratios (CTR, CPC, ...) are exact rationals [n, d]; d = 0 stands for a  *)
(* non-finite JavaScript number (NaN or Infinity).                        *)
(***************************************************************************)
EXTENDS Integers, Sequences, FiniteSets, TLC

VARIABLES
    \* SettingsProvider state
    fetchedData, isDataLoading, dataError, inFlight,
    \* SettingsProvider settings.sheetUrl; the URLs of the fetches in flight, in
    \* the order they were requested; history: the URL fetchedData came from
    sheetUrl, pendingUrls, fetchedFrom,
    \* the route shown (Navigation links) and the TermsPage component state
    route, sortField, sortDirection, currentPage, searchTerm, searchMode,
    selectedCampaignFilter, selectedAdGroupFilter, matchType,
    \* AdGroupAnalyzerProvider state, its localStorage entries and the clock
    agSheetUrl, agFetchedData, agIsDataLoading, agDataError, agIsInitialized,
    agInFlight, lsSettings, lsData, now,
    \* history: fetchAdGroupData calls issued, and user actions taken
    agRequests, agUserActions,
    \* history: when the rows held by the provider, and the rows held by the
    \* localStorage cache, came from the sheet
    agDataFetchedAt, lsDataFetchedAt,
    \* the props of SearchTermsTreeView
    treeProps,
    \* AdGroupAnalyzerContent: the provider's rows and the page's useState
    activeData, selectedCampaign, dateRangeOption, customDateRange, sortOption,
    \* the arguments of exportSearchTermsToCSV and prepareForGoogleSheets
    exportArgs,
    \* the ad group web app: the request parameter, the AdGroupDaily sheet and
    \* whether the spreadsheet service throws
    webApp,
    \* the insights endpoint: the request posted and what the provider answers
    insights

termsVars == <<fetchedData, isDataLoading, dataError, inFlight, sheetUrl,
               pendingUrls, fetchedFrom, route, sortField,
               sortDirection, currentPage, searchTerm, searchMode,
               selectedCampaignFilter, selectedAdGroupFilter, matchType>>

agVars == <<agSheetUrl, agFetchedData, agIsDataLoading, agDataError, agIsInitialized,
            agInFlight, lsSettings, lsData, now, agRequests, agUserActions,
            agDataFetchedAt, lsDataFetchedAt>>

\* the components that are given their rows as props
treeVars == <<treeProps>>

cardVars == <<activeData, selectedCampaign, dateRangeOption, customDateRange, sortOption>>

exportVars == <<exportArgs>>

serverVars == <<webApp, insights>>

viewVars == <<treeVars, cardVars, exportVars, serverVars>>

vars == <<termsVars, agVars, viewVars>>

pageVars == <<sortField, sortDirection, currentPage, searchTerm, searchMode,
              selectedCampaignFilter, selectedAdGroupFilter, matchType>>

providerVars == <<fetchedData, isDataLoading, dataError, inFlight, sheetUrl,
                  pendingUrls, fetchedFrom>>

-----------------------------------------------------------------------------
(* Bounds of the model *)

\* longest list of rows enumerated exhaustively as a sheet response
MaxRows == 2
\* rows of the one long response (more than one page of ROWS_PER_PAGE)
BigRows == 51
\* fetches that may be in flight at once
MaxInFlight == 2
\* fetchAdGroupData calls and user actions followed in AdGroupAnalyzerProvider
MaxRequests == 3
MaxUserActions == 4
\* half hours that may pass
MaxTicks == 3
\* rows given to SearchTermsTreeView
MaxTreeRows == 4
\* rows of the ad group data
MaxAdRows == 4
\* rows given to the export functions
MaxExportRows == 2
\* data rows of the AdGroupDaily sheet
MaxSheetRows == 2

-----------------------------------------------------------------------------
(* JavaScript strings *)

Space == " "

LowerOf ==
    ("A" :> "a") @@ ("B" :> "b") @@ ("X" :> "x") @@ ("Y" :> "y") @@ ("G" :> "g") @@ ("U" :> "u")

\* String.prototype.toLowerCase
toLowerCase(s) ==
    [i \in 1..Len(s) |-> IF s[i] \in DOMAIN LowerOf THEN LowerOf[s[i]] ELSE s[i]]

RECURSIVE trimStart(_)
trimStart(s) ==
    IF s # <<>> /\ Head(s) = Space THEN trimStart(Tail(s)) ELSE s

RECURSIVE trimEnd(_)
trimEnd(s) ==
    IF s # <<>> /\ s[Len(s)] = Space THEN trimEnd(SubSeq(s, 1, Len(s) - 1)) ELSE s

\* String.prototype.trim
trim(s) == trimEnd(trimStart(s))

\* String.prototype.split(/\s+/): the pieces between maximal runs of whitespace
\* (a leading or trailing run leaves an empty first or last piece)
RECURSIVE splitFrom(_, _, _)
splitFrom(s, i, cur) ==
    IF i > Len(s) THEN <<cur>>
    ELSE IF s[i] = Space
         THEN IF i > 1 /\ s[i - 1] = Space
              THEN splitFrom(s, i + 1, cur)
              ELSE <<cur>> \o splitFrom(s, i + 1, <<>>)
         ELSE splitFrom(s, i + 1, Append(cur, s[i]))

splitWhitespace(s) == splitFrom(s, 1, <<>>)

\* String.prototype.includes
includes(text, word) ==
    \E i \in 0..(Len(text) - Len(word)) : SubSeq(text, i + 1, i + Len(word)) = word

\* Collation weights of String.prototype.localeCompare: letters differ first by
\* letter (primary), then by case (tertiary, lower case first); a space sorts
\* before every letter.
PrimaryOrder ==
    <<" ", "a", "b", "c", "d", "g", "h", "k", "n", "o", "p", "r", "u", "w", "x", "y">>

Primary(c) == CHOOSE k \in 1..Len(PrimaryOrder) : PrimaryOrder[k] = toLowerCase(<<c>>)[1]

Tertiary(c) == IF c \in DOMAIN LowerOf THEN 1 ELSE 0

RECURSIVE lexCompare(_, _)
lexCompare(a, b) ==
    IF a = <<>> /\ b = <<>> THEN 0
    ELSE IF a = <<>> THEN -1
    ELSE IF b = <<>> THEN 1
    ELSE IF Head(a) < Head(b) THEN -1
    ELSE IF Head(a) > Head(b) THEN 1
    ELSE lexCompare(Tail(a), Tail(b))

localeCompare(a, b) ==
    LET p == lexCompare([i \in 1..Len(a) |-> Primary(a[i])],
                        [i \in 1..Len(b) |-> Primary(b[i])])
    IN  IF p # 0 THEN p
        ELSE lexCompare([i \in 1..Len(a) |-> Tertiary(a[i])],
                        [i \in 1..Len(b) |-> Tertiary(b[i])])

-----------------------------------------------------------------------------
(* JavaScript numbers: counters are naturals, ratios are exact rationals *)

Zero == [n |-> 0, d |-> 1]

\* a / b and (a / b) * 100; b = 0 gives a non-finite number
Ratio(a, b) == [n |-> a, d |-> b]

Percent(a, b) == [n |-> a * 100, d |-> b]

isFinite(r) == r.d # 0

\* sign of x - y for finite rationals
RatCompare(x, y) ==
    LET l == x.n * y.d
        r == y.n * x.d
    IN  IF l < r THEN -1 ELSE IF l > r THEN 1 ELSE 0

RatEqual(x, y) == isFinite(x) /\ isFinite(y) /\ RatCompare(x, y) = 0

-----------------------------------------------------------------------------
(* Sheet rows (SearchTermMetric) and the responses of the sheet endpoint *)

Row(st, c, g, impr, clicks, cost, conv, value) ==
    [search_term |-> st, campaign |-> c, ad_group |-> g, impr |-> impr,
     clicks |-> clicks, cost |-> cost, conv |-> conv, value |-> value]

\* "b ab" / X / G, "a" / X / h (all counters zero), "Ab" / Y / G,
\* "c" / Y / b (no cost, but a conversion value)
RowPool ==
    << Row(<<"b", " ", "a", "b">>, <<"X">>, <<"G">>, 10, 2, 4, 1, 8),
       Row(<<"a">>,                <<"X">>, <<"h">>,  0, 0, 0, 0, 0),
       Row(<<"A", "b">>,           <<"Y">>, <<"G">>, 30, 1, 4, 0, 0),
       Row(<<"c">>,                <<"Y">>, <<"b">>,  5, 5, 0, 2, 3) >>

PoolIndex == 1..Len(RowPool)

SmallResponses ==
    UNION { { [i \in 1..n |-> RowPool[f[i]]] : f \in [1..n -> PoolIndex] } : n \in 0..MaxRows }

BigResponse == [i \in 1..BigRows |-> RowPool[((i - 1) % Len(RowPool)) + 1]]

\* what a fetch of the searchTerms tab may resolve to
Responses == SmallResponses \cup {BigResponse}

\* texts typed in the search box: "", " Ab ", "a  b", "a X h"
Queries ==
    { <<>>, <<" ", "A", "b", " ">>, <<"a", " ", " ", "b">>,
      <<"a", " ", "X", " ", "h">> }

Undefined == [undefined |-> TRUE]

\* the sheet URL of the default settings, and another the user may enter
DEFAULT_SHEET_URL == "u0"
SheetUrls == {DEFAULT_SHEET_URL, "u1"}

RemoveAt(s, k) == SubSeq(s, 1, k - 1) \o SubSeq(s, k + 1, Len(s))

\* localStorage.getItem of a missing key
None == [missing |-> TRUE]

\* one tick of the clock, in milliseconds
HalfHour == 30 * 60 * 1000

Null == [null |-> TRUE]

-----------------------------------------------------------------------------
(* lib/metrics: the derived fields of one row *)

calculateSingleSearchTermMetrics(term) ==
    [search_term |-> term.search_term, campaign |-> term.campaign,
     ad_group |-> term.ad_group, impr |-> term.impr, clicks |-> term.clicks,
     cost |-> term.cost, conv |-> term.conv, value |-> term.value,
     CTR  |-> IF term.impr > 0 THEN Percent(term.clicks, term.impr) ELSE Zero,
     CPC  |-> IF term.clicks > 0 THEN Ratio(term.cost, term.clicks) ELSE Zero,
     CvR  |-> IF term.clicks > 0 THEN Percent(term.conv, term.clicks) ELSE Zero,
     CPA  |-> IF term.conv > 0 THEN Ratio(term.cost, term.conv) ELSE Zero,
     ROAS |-> IF term.cost > 0 THEN Ratio(term.value, term.cost) ELSE Zero]

calculateAllSearchTermMetrics(terms) ==
    [i \in 1..Len(terms) |-> calculateSingleSearchTermMetrics(terms[i])]

-----------------------------------------------------------------------------
(* TermsPage: the memoised pipeline, as functions of its inputs *)

ROWS_PER_PAGE == 50

StringFields == {"search_term", "campaign", "ad_group"}

CounterFields == {"impr", "clicks", "cost", "conv", "value"}

DerivedFields == {"CTR", "CPC", "CvR", "CPA", "ROAS"}

\* the columns that carry a SortButton
SortFields == StringFields \cup CounterFields \cup DerivedFields

SearchModes == {"contains", "exact", "exclude"}

All == <<"a", "l", "l">>

\* campaignAndAdGroupFilter keeping the rows that pass either active filter
campaignAndAdGroupFilter_Either(rows, campaignFilter, adGroupFilter) ==
    IF campaignFilter # <<>> /\ adGroupFilter # <<>>
    THEN SelectSeq(rows, LAMBDA term : \/ term.campaign = campaignFilter
                                       \/ term.ad_group = adGroupFilter)
    ELSE IF campaignFilter # <<>>
    THEN SelectSeq(rows, LAMBDA term : term.campaign = campaignFilter)
    ELSE IF adGroupFilter # <<>>
    THEN SelectSeq(rows, LAMBDA term : term.ad_group = adGroupFilter)
    ELSE rows

\* campaign filter, then ad-group filter; '' (falsy) skips the stage
campaignAndAdGroupFilter(rows, campaignFilter, adGroupFilter) ==
    LET byCampaign ==
            IF campaignFilter # <<>>
            THEN SelectSeq(rows, LAMBDA term : term.campaign = campaignFilter)
            ELSE rows
    IN  IF adGroupFilter # <<>>
        THEN SelectSeq(byCampaign, LAMBDA term : term.ad_group = adGroupFilter)
        ELSE byCampaign

searchableText(term) ==
    toLowerCase(term.search_term \o <<Space>> \o term.campaign \o <<Space>> \o term.ad_group)

\* searchTerm.toLowerCase().trim().split(/\s+/)
searchWordsOf(query) == splitWhitespace(trim(toLowerCase(query)))

\* searchPredicate with 'contains' satisfied by any one word
searchPredicate_ContainsAny(term, searchWords, query, mode) ==
    LET text == searchableText(term)
    IN  CASE mode = "contains" ->
               \E k \in 1..Len(searchWords) : includes(text, searchWords[k])
          [] mode = "exact" ->
               LET exactSearchTerm == trim(toLowerCase(query))
               IN  \/ toLowerCase(term.search_term) = exactSearchTerm
                   \/ toLowerCase(term.campaign) = exactSearchTerm
                   \/ toLowerCase(term.ad_group) = exactSearchTerm
          [] mode = "exclude" ->
               ~(\E k \in 1..Len(searchWords) : includes(text, searchWords[k]))
          [] OTHER -> TRUE

\* searchPredicate with 'exact' satisfied by a field that contains the query
searchPredicate_ExactPartial(term, searchWords, query, mode) ==
    LET text == searchableText(term)
    IN  CASE mode = "contains" ->
               \A k \in 1..Len(searchWords) : includes(text, searchWords[k])
          [] mode = "exact" ->
               LET exactSearchTerm == trim(toLowerCase(query))
               IN  \/ includes(toLowerCase(term.search_term), exactSearchTerm)
                   \/ includes(toLowerCase(term.campaign), exactSearchTerm)
                   \/ includes(toLowerCase(term.ad_group), exactSearchTerm)
          [] mode = "exclude" ->
               ~(\E k \in 1..Len(searchWords) : includes(text, searchWords[k]))
          [] OTHER -> TRUE

\* searchPredicate with 'exclude' as the negation of 'contains'
searchPredicate_ExcludeNotEvery(term, searchWords, query, mode) ==
    LET text == searchableText(term)
    IN  CASE mode = "contains" ->
               \A k \in 1..Len(searchWords) : includes(text, searchWords[k])
          [] mode = "exact" ->
               LET exactSearchTerm == trim(toLowerCase(query))
               IN  \/ toLowerCase(term.search_term) = exactSearchTerm
                   \/ toLowerCase(term.campaign) = exactSearchTerm
                   \/ toLowerCase(term.ad_group) = exactSearchTerm
          [] mode = "exclude" ->
               ~(\A k \in 1..Len(searchWords) : includes(text, searchWords[k]))
          [] OTHER -> TRUE

\* the callback of calculatedSearchTerms.filter
searchPredicate(term, searchWords, query, mode) ==
    LET text == searchableText(term)
    IN  CASE mode = "contains" ->
               \A k \in 1..Len(searchWords) : includes(text, searchWords[k])
          [] mode = "exact" ->
               LET exactSearchTerm == trim(toLowerCase(query))
               IN  \/ toLowerCase(term.search_term) = exactSearchTerm
                   \/ toLowerCase(term.campaign) = exactSearchTerm
                   \/ toLowerCase(term.ad_group) = exactSearchTerm
          [] mode = "exclude" ->
               ~(\E k \in 1..Len(searchWords) : includes(text, searchWords[k]))
          [] OTHER -> TRUE

textSearchFilter(rows, query, mode) ==
    IF trim(query) = <<>>
    THEN rows
    ELSE LET searchWords == searchWordsOf(query)
         IN  SelectSeq(rows, LAMBDA term : searchPredicate(term, searchWords, query, mode))

RECURSIVE sumField(_, _)
sumField(rows, f) ==
    IF rows = <<>> THEN 0 ELSE rows[1][f] + sumField(Tail(rows), f)

getModeLabel(mode) ==
    CASE mode = "contains" -> "filtered"
      [] mode = "exact" -> "exact match"
      [] mode = "exclude" -> "excluding"
      [] OTHER -> "filtered"

getTotalLabel(query, mode, campaignFilter, adGroupFilter) ==
    (IF campaignFilter # <<>> THEN <<"campaign filtered">> ELSE <<>>)
    \o (IF adGroupFilter # <<>> THEN <<"ad group filtered">> ELSE <<>>)
    \o (IF trim(query) # <<>> THEN <<getModeLabel(mode)>> ELSE <<>>)

\* sum and mean of a ratio field over rows (of finite ratios)
RatAdd(x, y) == [n |-> x.n * y.d + y.n * x.d, d |-> x.d * y.d]

RECURSIVE sumRatios(_, _)
sumRatios(rows, f) ==
    IF rows = <<>> THEN Zero ELSE RatAdd(rows[1][f], sumRatios(Tail(rows), f))

meanRatio(rows, f) ==
    LET t == sumRatios(rows, f) IN [n |-> t.n, d |-> t.d * Len(rows)]

\* totalsOf with the derived fields averaged over the rows
totalsOf_Averaged(rows, label) ==
    IF Len(rows) = 0 THEN Null
    ELSE [search_term |-> label, campaign |-> <<>>, ad_group |-> <<>>,
          impr |-> sumField(rows, "impr"), clicks |-> sumField(rows, "clicks"),
          cost |-> sumField(rows, "cost"), conv |-> sumField(rows, "conv"),
          value |-> sumField(rows, "value"),
          CTR |-> meanRatio(rows, "CTR"), CPC |-> meanRatio(rows, "CPC"),
          CvR |-> meanRatio(rows, "CvR"), CPA |-> meanRatio(rows, "CPA"),
          ROAS |-> meanRatio(rows, "ROAS")]

\* totalsOf with the divisions left unguarded
totalsOf_Unguarded(rows, label) ==
    IF Len(rows) = 0 THEN Null
    ELSE LET impr == sumField(rows, "impr")
             clicks == sumField(rows, "clicks")
             cost == sumField(rows, "cost")
             conv == sumField(rows, "conv")
             value == sumField(rows, "value")
         IN  [search_term |-> label, campaign |-> <<>>, ad_group |-> <<>>,
              impr |-> impr, clicks |-> clicks, cost |-> cost, conv |-> conv,
              value |-> value,
              CTR  |-> Percent(clicks, impr),
              CPC  |-> Ratio(cost, clicks),
              CvR  |-> Percent(conv, clicks),
              CPA  |-> Ratio(cost, conv),
              ROAS |-> Ratio(value, cost)]

\* totalsOf giving a zero-filled row for an empty list
totalsOf_ZeroRow(rows, label) ==
    [search_term |-> label, campaign |-> <<>>, ad_group |-> <<>>,
     impr |-> sumField(rows, "impr"), clicks |-> sumField(rows, "clicks"),
     cost |-> sumField(rows, "cost"), conv |-> sumField(rows, "conv"),
     value |-> sumField(rows, "value"),
     CTR |-> Zero, CPC |-> Zero, CvR |-> Zero, CPA |-> Zero, ROAS |-> Zero]

\* the reduce over the filtered rows and the derived metrics of the sums
totalsOf(rows, label) ==
    IF Len(rows) = 0 THEN Null
    ELSE LET impr == sumField(rows, "impr")
             clicks == sumField(rows, "clicks")
             cost == sumField(rows, "cost")
             conv == sumField(rows, "conv")
             value == sumField(rows, "value")
         IN  [search_term |-> label, campaign |-> <<>>, ad_group |-> <<>>,
              impr |-> impr, clicks |-> clicks, cost |-> cost, conv |-> conv,
              value |-> value,
              CTR  |-> IF impr > 0 THEN Percent(clicks, impr) ELSE Zero,
              CPC  |-> IF clicks > 0 THEN Ratio(cost, clicks) ELSE Zero,
              CvR  |-> IF clicks > 0 THEN Percent(conv, clicks) ELSE Zero,
              CPA  |-> IF conv > 0 THEN Ratio(cost, conv) ELSE Zero,
              ROAS |-> IF cost > 0 THEN Ratio(value, cost) ELSE Zero]

directionSign(dir) == IF dir = "asc" THEN 1 ELSE -1

\* the comparator handed to Array.prototype.sort
compareTerms(a, b, field, dir) ==
    IF field \in StringFields
    THEN localeCompare(a[field], b[field]) * directionSign(dir)
    ELSE IF field \in CounterFields
         THEN (a[field] - b[field]) * directionSign(dir)
         ELSE RatCompare(a[field], b[field]) * directionSign(dir)

\* Array.prototype.sort: a stable merge sort; it works on the positions of the
\* rows in the list handed to it, so that equal rows stay distinguishable
RECURSIVE merge(_, _, _, _, _)
merge(rows, left, right, field, dir) ==
    IF left = <<>> THEN right
    ELSE IF right = <<>> THEN left
    ELSE IF compareTerms(rows[Head(right)], rows[Head(left)], field, dir) < 0
         THEN <<Head(right)>> \o merge(rows, left, Tail(right), field, dir)
         ELSE <<Head(left)>> \o merge(rows, Tail(left), right, field, dir)

RECURSIVE mergeSort(_, _, _, _)
mergeSort(rows, idx, field, dir) ==
    IF Len(idx) <= 1 THEN idx
    ELSE LET mid == Len(idx) \div 2
         IN  merge(rows,
                   mergeSort(rows, SubSeq(idx, 1, mid), field, dir),
                   mergeSort(rows, SubSeq(idx, mid + 1, Len(idx)), field, dir),
                   field, dir)

RECURSIVE Reverse(_)
Reverse(seq) == IF seq = <<>> THEN <<>> ELSE Append(Reverse(Tail(seq)), Head(seq))

\* sortOrder with 'desc' obtained by reversing the ascending order
sortOrder_ReverseForDesc(rows, field, dir) ==
    LET asc == mergeSort(rows, [i \in 1..Len(rows) |-> i], field, "asc")
    IN  IF dir = "asc" THEN asc ELSE Reverse(asc)

\* positions of the filtered rows in sorted order
sortOrder(rows, field, dir) ==
    mergeSort(rows, [i \in 1..Len(rows) |-> i], field, dir)

sortRows(rows, field, dir) ==
    LET order == sortOrder(rows, field, dir)
    IN  [k \in 1..Len(rows) |-> rows[order[k]]]

\* Math.floor in place of Math.ceil
totalPagesOf_Floor(n) == n \div ROWS_PER_PAGE

\* Math.ceil(totalRows / ROWS_PER_PAGE)
totalPagesOf(n) == (n + ROWS_PER_PAGE - 1) \div ROWS_PER_PAGE

Min(a, b) == IF a < b THEN a ELSE b

Max(a, b) == IF a > b THEN a ELSE b

\* Array.prototype.slice(start, end) for 0 <= start <= end
slice(s, start, end) == SubSeq(s, start + 1, Min(end, Len(s)))

pageSlice(sorted, page) ==
    slice(sorted, (page - 1) * ROWS_PER_PAGE, (page - 1) * ROWS_PER_PAGE + ROWS_PER_PAGE)

-----------------------------------------------------------------------------
(* TermsPage: the values computed on each render from the current state *)

searchTermsRaw == IF fetchedData = Undefined THEN <<>> ELSE fetchedData.searchTerms

\* the options of the campaign Select (blank names are left out)
campaignsFromSearchTerms ==
    { searchTermsRaw[i].campaign : i \in { j \in 1..Len(searchTermsRaw) :
                                            trim(searchTermsRaw[j].campaign) # <<>> } }

\* the options of the ad-group Select, within the selected campaign if any
adGroupsFromSearchTerms ==
    LET relevantTerms ==
            IF selectedCampaignFilter # <<>>
            THEN SelectSeq(searchTermsRaw, LAMBDA term : term.campaign = selectedCampaignFilter)
            ELSE searchTermsRaw
    IN  { relevantTerms[i].ad_group : i \in { j \in 1..Len(relevantTerms) :
                                             trim(relevantTerms[j].ad_group) # <<>> } }

campaignAndAdGroupFilteredSearchTerms ==
    campaignAndAdGroupFilter(searchTermsRaw, selectedCampaignFilter, selectedAdGroupFilter)

calculatedSearchTerms == calculateAllSearchTermMetrics(campaignAndAdGroupFilteredSearchTerms)

filteredSearchTerms == textSearchFilter(calculatedSearchTerms, searchTerm, searchMode)

totalsRow ==
    totalsOf(filteredSearchTerms,
             getTotalLabel(searchTerm, searchMode, selectedCampaignFilter, selectedAdGroupFilter))

sortedTerms == sortRows(filteredSearchTerms, sortField, sortDirection)

totalRows == Len(filteredSearchTerms)

totalPages == totalPagesOf(totalRows)

startIndex == (currentPage - 1) * ROWS_PER_PAGE

endIndex == startIndex + ROWS_PER_PAGE

currentPageData == pageSlice(sortedTerms, currentPage)

\* the page renders its controls only past the error and loading early returns
controlsShown == route = "terms" /\ dataError = "null" /\ ~isDataLoading

-----------------------------------------------------------------------------
(* Initial state: the app opened on /terms; SettingsProvider has mounted and *)
(* its effect has started the first fetch                                    *)

pageInit ==
    /\ sortField = "cost"
    /\ sortDirection = "desc"
    /\ currentPage = 1
    /\ searchTerm = <<>>
    /\ searchMode = "contains"
    /\ selectedCampaignFilter = <<>>
    /\ selectedAdGroupFilter = <<>>
    /\ matchType = "broad"

termsInit ==
    /\ fetchedData = Undefined
    /\ isDataLoading = TRUE
    /\ dataError = "null"
    /\ inFlight = 1
    /\ sheetUrl = DEFAULT_SHEET_URL
    /\ pendingUrls = <<DEFAULT_SHEET_URL>>
    /\ fetchedFrom = None
    /\ route = "terms"
    /\ pageInit

\* AdGroupAnalyzerProvider constructed (useState defaults), its mount effect
\* not yet run; nothing in localStorage
agInit ==
    /\ agSheetUrl = ""
    /\ agFetchedData = Undefined
    /\ agIsDataLoading = FALSE
    /\ agDataError = "null"
    /\ agIsInitialized = FALSE
    /\ agInFlight = <<>>
    /\ lsSettings = None
    /\ lsData = None
    /\ now = HalfHour
    /\ agRequests = 0
    /\ agUserActions = 0
    /\ agDataFetchedAt = None
    /\ lsDataFetchedAt = None

\* a date input left empty
NoDate == 0

\* SearchTermsTreeView rendered with no rows; the analyzer page before any
\* data has arrived
viewInit ==
    /\ treeProps = [data |-> <<>>]
    /\ activeData = <<>>
    /\ selectedCampaign = <<>>
    /\ dateRangeOption = "last30"
    /\ customDateRange = [startDate |-> NoDate, endDate |-> NoDate]
    /\ sortOption = "cost"
    /\ exportArgs = [data |-> <<>>, matchType |-> "broad"]
    /\ webApp = [tab |-> "", sheet |-> None, throws |-> FALSE]
    /\ insights = [body |-> "object", prompt |-> "", data |-> "absent",
                   apiKey |-> "", provider |-> "", context |-> FALSE,
                   outcome |-> [throws |-> FALSE, status |-> 0, message |-> ""]]

Init == termsInit /\ agInit /\ viewInit

-----------------------------------------------------------------------------
(* SettingsProvider *)

\* fetchData up to its await, called by refreshData or by the effect on a new
\* sheet URL; no page of src/ calls either, so they run away from /terms
refreshData ==
    /\ route = "other"
    /\ inFlight < MaxInFlight
    /\ isDataLoading' = TRUE
    /\ dataError' = "null"
    /\ inFlight' = inFlight + 1
    /\ pendingUrls' = Append(pendingUrls, sheetUrl)
    /\ UNCHANGED <<fetchedData, sheetUrl, fetchedFrom, route, pageVars>>
    /\ UNCHANGED agVars
    /\ UNCHANGED viewVars

\* fetchData after its await: fetchAllTabsData resolved
fetchDataResolved ==
    /\ inFlight > 0
    /\ \E rows \in Responses : fetchedData' = [searchTerms |-> rows]
    /\ \E k \in 1..Len(pendingUrls) :
         /\ fetchedFrom' = [url |-> pendingUrls[k]]
         /\ pendingUrls' = RemoveAt(pendingUrls, k)
    /\ isDataLoading' = FALSE
    /\ inFlight' = inFlight - 1
    /\ UNCHANGED <<dataError, sheetUrl, route, pageVars>>
    /\ UNCHANGED agVars
    /\ UNCHANGED viewVars

\* fetchData after its await: fetchAllTabsData threw
fetchDataRejected ==
    /\ inFlight > 0
    /\ dataError' = "Error"
    /\ isDataLoading' = FALSE
    /\ inFlight' = inFlight - 1
    /\ \E k \in 1..Len(pendingUrls) : pendingUrls' = RemoveAt(pendingUrls, k)
    /\ UNCHANGED <<fetchedData, sheetUrl, fetchedFrom, route, pageVars>>
    /\ UNCHANGED agVars
    /\ UNCHANGED viewVars

\* setSheetUrl(url): updateSettings, and with a new URL the effect on
\* settings.sheetUrl calls fetchData(url)
setSheetUrl ==
    /\ route = "other"
    /\ inFlight < MaxInFlight
    /\ \E url \in SheetUrls :
         /\ url # sheetUrl
         /\ sheetUrl' = url
         /\ pendingUrls' = Append(pendingUrls, url)
    /\ isDataLoading' = TRUE
    /\ dataError' = "null"
    /\ inFlight' = inFlight + 1
    /\ UNCHANGED <<fetchedData, fetchedFrom, route, pageVars>>
    /\ UNCHANGED agVars
    /\ UNCHANGED viewVars

-----------------------------------------------------------------------------
(* Navigation: a link to another route unmounts TermsPage; coming back      *)
(* mounts it again with the initial useState values                         *)

navigate ==
    /\ route' = IF route = "terms" THEN "other" ELSE "terms"
    /\ sortField' = "cost"
    /\ sortDirection' = "desc"
    /\ currentPage' = 1
    /\ searchTerm' = <<>>
    /\ searchMode' = "contains"
    /\ selectedCampaignFilter' = <<>>
    /\ selectedAdGroupFilter' = <<>>
    /\ matchType' = "broad"
    /\ UNCHANGED providerVars
    /\ UNCHANGED agVars
    /\ UNCHANGED viewVars

-----------------------------------------------------------------------------
(* TermsPage handlers *)

\* handleSort with the default direction 'desc' for every newly selected field
handleSort_AlwaysDesc ==
    /\ controlsShown
    /\ \E field \in SortFields :
         IF field = sortField
         THEN /\ sortDirection' = IF sortDirection = "asc" THEN "desc" ELSE "asc"
              /\ sortField' = sortField
         ELSE /\ sortField' = field
              /\ sortDirection' = "desc"
    /\ currentPage' = 1
    /\ UNCHANGED <<providerVars, route, searchTerm, searchMode,
                   selectedCampaignFilter, selectedAdGroupFilter>>
    /\ UNCHANGED matchType
    /\ UNCHANGED agVars
    /\ UNCHANGED viewVars

handleSort ==
    /\ controlsShown
    /\ \E field \in SortFields :
         LET isStringField == field \in StringFields
             defaultDirection == IF isStringField THEN "asc" ELSE "desc"
         IN  IF field = sortField
             THEN /\ sortDirection' = IF sortDirection = "asc" THEN "desc" ELSE "asc"
                  /\ sortField' = sortField
             ELSE /\ sortField' = field
                  /\ sortDirection' = defaultDirection
    /\ currentPage' = 1
    /\ UNCHANGED <<providerVars, route, searchTerm, searchMode,
                   selectedCampaignFilter, selectedAdGroupFilter>>
    /\ UNCHANGED matchType
    /\ UNCHANGED agVars
    /\ UNCHANGED viewVars

\* the pagination links, Previous and Next; rendered when totalPages > 1
pageTargets ==
    (1..totalPages) \cup {Max(1, currentPage - 1), Min(totalPages, currentPage + 1)}

handlePageChange ==
    /\ controlsShown
    /\ totalPages > 1
    /\ \E page \in pageTargets : currentPage' = page
    /\ UNCHANGED <<providerVars, route, sortField, sortDirection, searchTerm,
                   searchMode, selectedCampaignFilter, selectedAdGroupFilter>>
    /\ UNCHANGED matchType
    /\ UNCHANGED agVars
    /\ UNCHANGED viewVars

handleSearchChange ==
    /\ controlsShown
    /\ \E value \in Queries : searchTerm' = value
    /\ currentPage' = 1
    /\ UNCHANGED <<providerVars, route, sortField, sortDirection, searchMode,
                   selectedCampaignFilter, selectedAdGroupFilter>>
    /\ UNCHANGED matchType
    /\ UNCHANGED agVars
    /\ UNCHANGED viewVars

\* handleSearchModeChange without setCurrentPage(1)
handleSearchModeChange_KeepsPage ==
    /\ controlsShown
    /\ \E mode \in SearchModes : searchMode' = mode
    /\ UNCHANGED <<providerVars, route, sortField, sortDirection, searchTerm,
                   selectedCampaignFilter, selectedAdGroupFilter, currentPage>>
    /\ UNCHANGED matchType
    /\ UNCHANGED agVars
    /\ UNCHANGED viewVars

handleSearchModeChange ==
    /\ controlsShown
    /\ \E mode \in SearchModes : searchMode' = mode
    /\ currentPage' = 1
    /\ UNCHANGED <<providerVars, route, sortField, sortDirection, searchTerm,
                   selectedCampaignFilter, selectedAdGroupFilter>>
    /\ UNCHANGED matchType
    /\ UNCHANGED agVars
    /\ UNCHANGED viewVars

\* the X button, shown while the search box is not empty
clearSearch ==
    /\ controlsShown
    /\ searchTerm # <<>>
    /\ searchTerm' = <<>>
    /\ searchMode' = "contains"
    /\ currentPage' = 1
    /\ UNCHANGED <<providerVars, route, sortField, sortDirection,
                   selectedCampaignFilter, selectedAdGroupFilter>>
    /\ UNCHANGED matchType
    /\ UNCHANGED agVars
    /\ UNCHANGED viewVars

handleCampaignFilterChange ==
    /\ controlsShown
    /\ \E campaign \in campaignsFromSearchTerms \cup {All} :
         selectedCampaignFilter' = IF campaign = All THEN <<>> ELSE campaign
    /\ selectedAdGroupFilter' = <<>>
    /\ currentPage' = 1
    /\ UNCHANGED <<providerVars, route, sortField, sortDirection, searchTerm, searchMode>>
    /\ UNCHANGED matchType
    /\ UNCHANGED agVars
    /\ UNCHANGED viewVars

handleAdGroupFilterChange ==
    /\ controlsShown
    /\ \E adGroup \in adGroupsFromSearchTerms \cup {All} :
         selectedAdGroupFilter' = IF adGroup = All THEN <<>> ELSE adGroup
    /\ currentPage' = 1
    /\ UNCHANGED <<providerVars, route, sortField, sortDirection, searchTerm,
                   searchMode, selectedCampaignFilter>>
    /\ UNCHANGED matchType
    /\ UNCHANGED agVars
    /\ UNCHANGED viewVars

Next ==
    \/ refreshData
    \/ fetchDataResolved
    \/ fetchDataRejected
    \/ navigate
    \/ handleSort
    \/ handlePageChange
    \/ handleSearchChange
    \/ handleSearchModeChange
    \/ clearSearch
    \/ handleCampaignFilterChange
    \/ handleAdGroupFilterChange

Spec == Init /\ [][Next]_vars

\* The page with the sort buttons left alone (sortField and sortDirection are
\* read by sortedTerms only): the runs that exercise the filters and totals.
NextSearch ==
    \/ refreshData
    \/ fetchDataResolved
    \/ fetchDataRejected
    \/ navigate
    \/ handlePageChange
    \/ handleSearchChange
    \/ handleSearchModeChange
    \/ clearSearch
    \/ handleCampaignFilterChange
    \/ handleAdGroupFilterChange

SpecSearch == Init /\ [][NextSearch]_vars

\* The page with the search box left alone: the runs that exercise sorting.
NextSort ==
    \/ refreshData
    \/ fetchDataResolved
    \/ fetchDataRejected
    \/ navigate
    \/ handleSort
    \/ handlePageChange
    \/ handleCampaignFilterChange
    \/ handleAdGroupFilterChange

SpecSort == Init /\ [][NextSort]_vars

\* SettingsProvider with its settings page: the sheet URL is changed and the
\* data refreshed
NextSettings ==
    \/ setSheetUrl
    \/ refreshData
    \/ fetchDataResolved
    \/ fetchDataRejected
    \/ navigate

SpecSettings == Init /\ [][NextSettings]_vars

-----------------------------------------------------------------------------
(* AdGroupAnalyzerProvider *)

\* sheet URLs the user may enter ('' is the default), and the responses of
\* the ad group endpoint
AgUrls == {"u1", "u2"}
AgResponses == {"d1", "d2"}

\* the freshness window of the cached data
oneHour == 60 * 60 * 1000

\* the condition of the fetch effect
fetchEffectFires(initialized, url, data, loading) ==
    initialized /\ url # "" /\ data = Undefined /\ ~loading

\* the cached entry the mount effect adopts: fresh if stamped less than an
\* hour ago
cacheIsFresh == lsData # None /\ lsData.timestamp # 0 /\ now - lsData.timestamp < oneHour

\* A page load: the provider is constructed with its defaults, the mount
\* effect reads localStorage, and the effects of the next render save the
\* settings, re-save the adopted data and start a fetch when there is a URL
\* and no data.  Fetches of the page that was left are abandoned.
agLoadPage ==
    /\ agUserActions < MaxUserActions
    /\ agRequests < MaxRequests
    /\ LET url == IF lsSettings # None THEN lsSettings.sheetUrl ELSE ""
           data == IF cacheIsFresh THEN lsData.data ELSE Undefined
           fires == fetchEffectFires(TRUE, url, data, FALSE)
       IN  /\ agSheetUrl' = url
           /\ agFetchedData' = data
           /\ agIsInitialized' = TRUE
           /\ lsSettings' = [sheetUrl |-> url]
           /\ lsData' = IF data # Undefined
                        THEN [data |-> data, timestamp |-> now]
                        ELSE None
           /\ agIsDataLoading' = fires
           /\ agDataError' = "null"
           /\ agInFlight' = IF fires THEN <<url>> ELSE <<>>
           /\ agRequests' = IF fires THEN agRequests + 1 ELSE agRequests
           /\ agDataFetchedAt' = IF data # Undefined THEN lsDataFetchedAt ELSE None
           /\ lsDataFetchedAt' = IF data # Undefined THEN lsDataFetchedAt ELSE None
    /\ agUserActions' = agUserActions + 1
    /\ UNCHANGED now
    /\ UNCHANGED termsVars
    /\ UNCHANGED viewVars

\* setSheetUrl(url): the settings are saved, and the fetch effect runs when
\* the URL changed
agSetSheetUrl ==
    /\ agIsInitialized
    /\ agUserActions < MaxUserActions
    /\ agRequests < MaxRequests
    /\ \E url \in AgUrls \cup {""} :
         LET fires == /\ url # agSheetUrl
                      /\ fetchEffectFires(agIsInitialized, url, agFetchedData,
                                          agIsDataLoading)
         IN  /\ agSheetUrl' = url
             /\ lsSettings' = [sheetUrl |-> url]
             /\ agIsDataLoading' = (fires \/ agIsDataLoading)
             /\ agDataError' = IF fires THEN "null" ELSE agDataError
             /\ agInFlight' = IF fires THEN Append(agInFlight, url) ELSE agInFlight
             /\ agRequests' = IF fires THEN agRequests + 1 ELSE agRequests
    /\ agUserActions' = agUserActions + 1
    /\ UNCHANGED <<agFetchedData, agIsInitialized, lsData, now, agDataFetchedAt,
                   lsDataFetchedAt>>
    /\ UNCHANGED termsVars
    /\ UNCHANGED viewVars

\* refreshData(): fetchData(settings.sheetUrl) when there is a URL
agRefreshData ==
    /\ agIsInitialized
    /\ agSheetUrl # ""
    /\ agUserActions < MaxUserActions
    /\ agRequests < MaxRequests
    /\ agIsDataLoading' = TRUE
    /\ agDataError' = "null"
    /\ agInFlight' = Append(agInFlight, agSheetUrl)
    /\ agRequests' = agRequests + 1
    /\ agUserActions' = agUserActions + 1
    /\ UNCHANGED <<agSheetUrl, agFetchedData, agIsInitialized, lsSettings, lsData, now,
                   agDataFetchedAt, lsDataFetchedAt>>
    /\ UNCHANGED termsVars
    /\ UNCHANGED viewVars

\* fetchAdGroupData resolves: the data is set and saved with a timestamp
agFetchResolved ==
    /\ \E k \in 1..Len(agInFlight), d \in AgResponses :
         /\ agFetchedData' = [daily |-> d]
         /\ lsData' = [data |-> [daily |-> d], timestamp |-> now]
         /\ agInFlight' = RemoveAt(agInFlight, k)
    /\ agIsDataLoading' = FALSE
    /\ agDataFetchedAt' = [at |-> now]
    /\ lsDataFetchedAt' = [at |-> now]
    /\ UNCHANGED <<agSheetUrl, agDataError, agIsInitialized, lsSettings, now,
                   agRequests, agUserActions>>
    /\ UNCHANGED termsVars
    /\ UNCHANGED viewVars

\* fetchAdGroupData throws: the error is set and loading cleared; the fetch
\* effect then runs because isDataLoading changed, and with a URL and no data
\* it calls fetchData again
agFetchRejected ==
    /\ agRequests < MaxRequests
    /\ \E k \in 1..Len(agInFlight) :
         LET fires == /\ agIsDataLoading
                      /\ fetchEffectFires(agIsInitialized, agSheetUrl,
                                          agFetchedData, FALSE)
             rest == RemoveAt(agInFlight, k)
         IN  /\ agIsDataLoading' = fires
             /\ agDataError' = IF fires THEN "null" ELSE "Error"
             /\ agInFlight' = IF fires THEN Append(rest, agSheetUrl) ELSE rest
             /\ agRequests' = IF fires THEN agRequests + 1 ELSE agRequests
    /\ UNCHANGED <<agSheetUrl, agFetchedData, agIsInitialized, lsSettings, lsData,
                   now, agUserActions, agDataFetchedAt, lsDataFetchedAt>>
    /\ UNCHANGED termsVars
    /\ UNCHANGED viewVars

\* half an hour passes
agTick ==
    /\ now < MaxTicks * HalfHour
    /\ now' = now + HalfHour
    /\ UNCHANGED <<agSheetUrl, agFetchedData, agIsDataLoading, agDataError,
                   agIsInitialized, agInFlight, lsSettings, lsData, agRequests,
                   agUserActions, agDataFetchedAt, lsDataFetchedAt>>
    /\ UNCHANGED termsVars
    /\ UNCHANGED viewVars

NextAdGroupAnalyzer ==
    \/ agLoadPage
    \/ agSetSheetUrl
    \/ agRefreshData
    \/ agFetchResolved
    \/ agFetchRejected
    \/ agTick

SpecAdGroupAnalyzer == Init /\ [][NextAdGroupAnalyzer]_vars

-----------------------------------------------------------------------------
(* SearchTermsTreeView *)

\* rows the tree is built from: "b" / X / G, two rows "a" / X / G that differ
\* in their metrics, "a" / Y / G (the ad group G under a second campaign),
\* "c" with an empty campaign, and "Ab" / X / h
TreeRowPool ==
    << Row(<<"b">>,      <<"X">>, <<"G">>, 10, 2, 4, 1, 8),
       Row(<<"a">>,      <<"X">>, <<"G">>, 20, 1, 2, 0, 0),
       Row(<<"a">>,      <<"X">>, <<"G">>, 30, 3, 6, 2, 9),
       Row(<<"a">>,      <<"Y">>, <<"G">>,  5, 1, 1, 0, 0),
       Row(<<"c">>,      <<>>,    <<"h">>,  7, 1, 3, 1, 2),
       Row(<<"A", "b">>, <<"X">>, <<"h">>,  9, 2, 5, 0, 0) >>

Dash == <<"-">>

\* `adgroup-${term.campaign}-${term.ad_group}`
adGroupIdOf(term) ==
    <<"a", "d", "g", "r", "o", "u", "p", "-">> \o term.campaign \o Dash \o term.ad_group

\* `campaign-${term.campaign}`
campaignIdOf(term) ==
    <<"c", "a", "m", "p", "a", "i", "g", "n", "-">> \o term.campaign

\* `searchterm-${term.campaign}-${term.ad_group}-${term.search_term}`
searchTermIdOf(term) ==
    <<"s", "e", "a", "r", "c", "h", "t", "e", "r", "m", "-">> \o term.campaign \o Dash
        \o term.ad_group \o Dash \o term.search_term

searchTermNode(term) ==
    [id |-> searchTermIdOf(term), name |-> term.search_term, type |-> "searchTerm",
     data |-> term, children |-> <<>>, depth |-> 2]

\* an ad group node pushed for every term, found or not
pushIntoAdGroups_AlwaysPush(children, term) ==
    Append(children,
           [id |-> adGroupIdOf(term), name |-> term.ad_group, type |-> "adGroup",
            children |-> <<searchTermNode(term)>>, depth |-> 1])

\* a leaf pushed only when its ad group has no leaf of the same id yet
pushIntoAdGroups_DedupLeaves(children, term) ==
    LET found == { k \in 1..Len(children) : children[k].id = adGroupIdOf(term) }
        withNode == IF found # {} THEN children
                    ELSE Append(children,
                                [id |-> adGroupIdOf(term), name |-> term.ad_group,
                                 type |-> "adGroup", children |-> <<>>, depth |-> 1])
        at == CHOOSE k \in 1..Len(withNode) : withNode[k].id = adGroupIdOf(term)
    IN  IF \E l \in 1..Len(withNode[at].children) :
               withNode[at].children[l].id = searchTermIdOf(term)
        THEN withNode
        ELSE [withNode EXCEPT ![at].children = Append(@, searchTermNode(term))]

\* the children of a campaign node after a term: its ad group node is found by
\* id or pushed, and the leaf is pushed onto it
pushIntoAdGroups(children, term) ==
    LET found == { k \in 1..Len(children) : children[k].id = adGroupIdOf(term) }
        withNode == IF found # {} THEN children
                    ELSE Append(children,
                                [id |-> adGroupIdOf(term), name |-> term.ad_group,
                                 type |-> "adGroup", children |-> <<>>, depth |-> 1])
        \* Array.prototype.find: the first match
        at == CHOOSE k \in 1..Len(withNode) :
                  /\ withNode[k].id = adGroupIdOf(term)
                  /\ \A j \in 1..(k - 1) : withNode[j].id # adGroupIdOf(term)
    IN  [withNode EXCEPT ![at].children = Append(@, searchTermNode(term))]

\* one step of data.forEach: campaignMap as the sequence of its values in
\* insertion order, keyed by term.campaign
addTerm(campaignMap, term) ==
    LET has == \E k \in 1..Len(campaignMap) : campaignMap[k].name = term.campaign
        withNode == IF has THEN campaignMap
                    ELSE Append(campaignMap,
                                [id |-> campaignIdOf(term), name |-> term.campaign,
                                 type |-> "campaign", children |-> <<>>, depth |-> 0])
        at == CHOOSE k \in 1..Len(withNode) : withNode[k].name = term.campaign
    IN  [withNode EXCEPT ![at].children = pushIntoAdGroups(@, term)]

RECURSIVE forEachTerm(_, _)
forEachTerm(campaignMap, rows) ==
    IF rows = <<>> THEN campaignMap
    ELSE forEachTerm(addTerm(campaignMap, Head(rows)), Tail(rows))

\* a node placed after the nodes that do not compare greater (stable)
RECURSIVE insertByName(_, _)
insertByName(sorted, node) ==
    IF sorted = <<>> THEN <<node>>
    ELSE IF localeCompare(sorted[Len(sorted)].name, node.name) <= 0
         THEN Append(sorted, node)
         ELSE Append(insertByName(SubSeq(sorted, 1, Len(sorted) - 1), node),
                     sorted[Len(sorted)])

\* nodes.sort((a, b) => a.name.localeCompare(b.name))
RECURSIVE sortByNameFrom(_, _)
sortByNameFrom(sorted, nodes) ==
    IF nodes = <<>> THEN sorted
    ELSE sortByNameFrom(insertByName(sorted, Head(nodes)), Tail(nodes))

\* the sort left out: nodes stay in insertion order
sortByName_Unsorted(nodes) == nodes

sortByName(nodes) == sortByNameFrom(<<>>, nodes)

\* the useMemo of treeData
buildTree(rows) ==
    LET campaigns == sortByName(forEachTerm(<<>>, rows))
    IN  [c \in 1..Len(campaigns) |->
            [campaigns[c] EXCEPT !.children =
                LET adGroups == sortByName(@)
                IN  [g \in 1..Len(adGroups) |->
                        [adGroups[g] EXCEPT !.children = sortByName(@)]]]]

treeData == buildTree(treeProps.data)

\* the component is rendered again with one more row in its data; every list
\* of up to MaxTreeRows rows of TreeRowPool is reached this way
treeRender ==
    /\ Len(treeProps.data) < MaxTreeRows
    /\ \E r \in 1..Len(TreeRowPool) :
           treeProps' = [data |-> Append(treeProps.data, TreeRowPool[r])]
    /\ UNCHANGED termsVars
    /\ UNCHANGED agVars
    /\ UNCHANGED cardVars
    /\ UNCHANGED exportVars
    /\ UNCHANGED serverVars

NextTree == treeRender

SpecTree == Init /\ [][NextTree]_vars

-----------------------------------------------------------------------------
(* AdGroupAnalyzerContent: the ad group cards *)

\* a row of fetchAdGroupData; dates are day numbers, which order as the
\* 'YYYY-MM-DD' strings do
AdMetric(g, c, date, cost, conv, ownCpa, targetCpa) ==
    [ad_group |-> g, campaign |-> c, date |-> date, cost |-> cost, conv |-> conv,
     conversions |-> conv, cost_per_conversion |-> ownCpa,
     adgroup_target_cpa |-> targetCpa]

\* G / X on day 40 and on day 20, G / Y on day 40 (the ad group G under a
\* second campaign), a row with no ad group name on day 35, and h / X on day
\* 5 with no cost and no conversion
AdRowPool ==
    << AdMetric(<<"G">>, <<"X">>, 40, 4, 2, 2, 3),
       AdMetric(<<"G">>, <<"X">>, 20, 6, 0, 0, 7),
       AdMetric(<<"G">>, <<"Y">>, 40, 5, 1, 5, 2),
       AdMetric(<<>>,    <<"X">>, 35, 1, 1, 1, 0),
       AdMetric(<<"h">>, <<"X">>,  5, 0, 0, 0, 0) >>

DateRangeOptions == {"all", "last7", "last30", "custom"}

SortOptions == {"cost", "alphabetical-desc", "alphabetical-asc"}

\* values typed into the two date inputs
DateInputs == {NoDate, 20, 35}

UnknownAdGroup ==
    <<"U", "n", "k", "n", "o", "w", "n", " ", "A", "d", " ", "G", "r", "o", "u", "p">>

RECURSIVE filterSeq(_, _)
filterSeq(rows, keep) ==
    IF rows = <<>> THEN <<>>
    ELSE IF Head(rows) \in keep THEN <<Head(rows)>> \o filterSeq(Tail(rows), keep)
         ELSE filterSeq(Tail(rows), keep)

getDataDateRange(rows) ==
    IF rows = <<>> THEN [minDate |-> NoDate, maxDate |-> NoDate]
    ELSE LET dates == { rows[i].date : i \in 1..Len(rows) }
         IN  [minDate |-> CHOOSE d \in dates : \A e \in dates : d <= e,
              maxDate |-> CHOOSE d \in dates : \A e \in dates : d >= e]

getActiveDateRange(rows, option, custom) ==
    LET r == getDataDateRange(rows)
    IN  IF r.maxDate = NoDate THEN [startDate |-> NoDate, endDate |-> NoDate]
        ELSE CASE option = "all" -> [startDate |-> r.minDate, endDate |-> r.maxDate]
               [] option = "custom" -> custom
               [] option = "last7" -> [startDate |-> r.maxDate - 6, endDate |-> r.maxDate]
               [] option = "last30" -> [startDate |-> r.maxDate - 29, endDate |-> r.maxDate]
               [] OTHER -> [startDate |-> r.minDate, endDate |-> r.maxDate]

isDateInRange(date, range) ==
    IF range.startDate = NoDate \/ range.endDate = NoDate THEN TRUE
    ELSE date >= range.startDate /\ date <= range.endDate

getFilteredData(rows, campaign, option, custom) ==
    LET range == getActiveDateRange(rows, option, custom)
        inRange == filterSeq(rows, { rows[i] : i \in { j \in 1..Len(rows) :
                                                         isDateInRange(rows[j].date, range) } })
    IN  IF campaign # <<>>
        THEN filterSeq(inRange, { rows[i] : i \in { j \in 1..Len(rows) :
                                                      rows[j].campaign = campaign } })
        ELSE inRange

adGroupNameOf(metric) == IF metric.ad_group # <<>> THEN metric.ad_group ELSE UnknownAdGroup

\* metric.conversions || metric.conv || 0
conversionsOf(metric) ==
    IF metric.conversions # 0 THEN metric.conversions
    ELSE IF metric.conv # 0 THEN metric.conv ELSE 0

\* one step of dataToGroup.forEach: adGroupsMap as the sequence of its values
\* in insertion order, keyed by the ad group name
addMetric(adGroupsMap, metric) ==
    LET name == adGroupNameOf(metric)
        has == \E k \in 1..Len(adGroupsMap) : adGroupsMap[k].adGroup = name
        withGroup == IF has THEN adGroupsMap
                     ELSE Append(adGroupsMap,
                                 [adGroup |-> name, campaign |-> metric.campaign,
                                  data |-> <<>>,
                                  totals |-> [cost |-> 0, conversions |-> 0,
                                              cost_per_conversion |-> Zero,
                                              target_cpa |-> 0]])
        at == CHOOSE k \in 1..Len(withGroup) : withGroup[k].adGroup = name
    IN  [withGroup EXCEPT ![at].data = Append(@, metric),
                          ![at].totals.cost = @ + metric.cost,
                          ![at].totals.conversions = @ + conversionsOf(metric)]

RECURSIVE forEachMetric(_, _)
forEachMetric(adGroupsMap, rows) ==
    IF rows = <<>> THEN adGroupsMap
    ELSE forEachMetric(addMetric(adGroupsMap, Head(rows)), Tail(rows))

Sign(x) == IF x < 0 THEN -1 ELSE IF x > 0 THEN 1 ELSE 0

\* the comparators of the three sorts of the cards and of group.data.sort
compareBy(a, b, order) ==
    CASE order = "date-desc" -> Sign(b.date - a.date)
      [] order = "cost" -> Sign(b.totals.cost - a.totals.cost)
      [] order = "alphabetical-desc" -> localeCompare(b.adGroup, a.adGroup)
      [] OTHER -> localeCompare(a.adGroup, b.adGroup)

\* an element placed after the elements that do not compare greater (stable)
RECURSIVE insertBy(_, _, _)
insertBy(sorted, x, order) ==
    IF sorted = <<>> THEN <<x>>
    ELSE IF compareBy(sorted[Len(sorted)], x, order) <= 0
         THEN Append(sorted, x)
         ELSE Append(insertBy(SubSeq(sorted, 1, Len(sorted) - 1), x, order),
                     sorted[Len(sorted)])

RECURSIVE sortByFrom(_, _, _)
sortByFrom(sorted, rest, order) ==
    IF rest = <<>> THEN sorted
    ELSE sortByFrom(insertBy(sorted, Head(rest), order), Tail(rest), order)

sortBy(seq, order) == sortByFrom(<<>>, seq, order)

\* the cost per conversion of a card taken from its most recent row
\* instead of from the sums
groupTotals_FromRow(group) ==
    LET sortedByDate == sortBy(group.data, "date-desc")
    IN  [group EXCEPT
            !.data = sortedByDate,
            !.totals.cost_per_conversion = Ratio(sortedByDate[1].cost_per_conversion, 1),
            !.totals.target_cpa = sortedByDate[1].adgroup_target_cpa]

\* the callback of adGroupsMap.forEach: the cost per conversion of the sums,
\* the target CPA of the most recent row; group.data is sorted in place
groupTotals(group) ==
    LET sortedByDate == sortBy(group.data, "date-desc")
    IN  [group EXCEPT
            !.data = sortedByDate,
            !.totals.cost_per_conversion =
                IF group.totals.conversions > 0
                THEN Ratio(group.totals.cost, group.totals.conversions)
                ELSE Zero,
            !.totals.target_cpa =
                IF Len(sortedByDate) > 0 THEN sortedByDate[1].adgroup_target_cpa ELSE 0]

getAdGroupsWithData(rows, campaign, option, custom, order) ==
    LET dataToGroup == getFilteredData(rows, campaign, option, custom)
        adGroupsMap == forEachMetric(<<>>, dataToGroup)
        adGroupsArray == [k \in 1..Len(adGroupsMap) |-> groupTotals(adGroupsMap[k])]
    IN  sortBy(adGroupsArray, order)

adGroupsWithData ==
    getAdGroupsWithData(activeData, selectedCampaign, dateRangeOption, customDateRange,
                        sortOption)

\* the campaigns offered by CampaignSelect
adGroupCampaigns ==
    { activeData[i].campaign : i \in { j \in 1..Len(activeData) : activeData[j].campaign # <<>> } }

\* the provider hands the page its rows with one more row; every list of
\* up to MaxAdRows rows of AdRowPool is reached this way
activeDataChanges ==
    /\ Len(activeData) < MaxAdRows
    /\ \E r \in 1..Len(AdRowPool) : activeData' = Append(activeData, AdRowPool[r])
    /\ UNCHANGED <<selectedCampaign, dateRangeOption, customDateRange, sortOption>>
    /\ UNCHANGED <<termsVars, agVars, treeVars, exportVars, serverVars>>

setSelectedCampaign ==
    /\ \E id \in adGroupCampaigns \cup {<<>>} : selectedCampaign' = id
    /\ UNCHANGED <<activeData, dateRangeOption, customDateRange, sortOption>>
    /\ UNCHANGED <<termsVars, agVars, treeVars, exportVars, serverVars>>

handleDateRangeChange ==
    /\ \E option \in DateRangeOptions :
         /\ dateRangeOption' = option
         /\ customDateRange' = IF option # "custom"
                               THEN [startDate |-> NoDate, endDate |-> NoDate]
                               ELSE customDateRange
    /\ UNCHANGED <<activeData, selectedCampaign, sortOption>>
    /\ UNCHANGED <<termsVars, agVars, treeVars, exportVars, serverVars>>

\* the two date inputs, shown for the custom range
setCustomDateRange ==
    /\ dateRangeOption = "custom"
    /\ \E d \in DateInputs :
         \/ customDateRange' = [customDateRange EXCEPT !.startDate = d]
         \/ customDateRange' = [customDateRange EXCEPT !.endDate = d]
    /\ UNCHANGED <<activeData, selectedCampaign, dateRangeOption, sortOption>>
    /\ UNCHANGED <<termsVars, agVars, treeVars, exportVars, serverVars>>

setSortOption ==
    /\ \E option \in SortOptions : sortOption' = option
    /\ UNCHANGED <<activeData, selectedCampaign, dateRangeOption, customDateRange>>
    /\ UNCHANGED <<termsVars, agVars, treeVars, exportVars, serverVars>>

NextCards ==
    \/ activeDataChanges
    \/ setSelectedCampaign
    \/ handleDateRangeChange
    \/ setCustomDateRange
    \/ setSortOption

SpecCards == Init /\ [][NextCards]_vars

-----------------------------------------------------------------------------
(* lib/export *)

Comma == ","
Quote == "\""
Newline == "\n"
Tab == "\t"

MatchTypes == {"broad", "phrase", "exact"}

formatSearchTermByMatchType(searchTermText, mType) ==
    CASE mType = "phrase" -> <<Quote>> \o searchTermText \o <<Quote>>
      [] mType = "exact" -> <<"[">> \o searchTermText \o <<"]">>
      [] OTHER -> searchTermText

headers ==
    << <<"S", "e", "a", "r", "c", "h", " ", "T", "e", "r", "m">>,
       <<"C", "a", "m", "p", "a", "i", "g", "n">>,
       <<"A", "d", " ", "G", "r", "o", "u", "p">>,
       <<"I", "m", "p", "r", "e", "s", "s", "i", "o", "n", "s">>,
       <<"C", "l", "i", "c", "k", "s">>,
       <<"C", "o", "s", "t">>,
       <<"C", "o", "n", "v", "e", "r", "s", "i", "o", "n", "s">>,
       <<"C", "o", "n", "v", "e", "r", "s", "i", "o", "n", " ", "V", "a", "l", "u", "e">>,
       <<"C", "T", "R", " ", "(", "%", ")">>,
       <<"C", "P", "C">>,
       <<"C", "o", "n", "v", "e", "r", "s", "i", "o", "n", " ", "R", "a", "t", "e", " ", "(", "%", ")">>,
       <<"C", "P", "A">>,
       <<"R", "O", "A", "S">> >>

DigitChars == <<"0", "1", "2", "3", "4", "5", "6", "7", "8", "9">>

\* String(n) for a non-negative integer
RECURSIVE String(_)
String(n) ==
    IF n < 10 THEN <<DigitChars[n + 1]>>
    ELSE String(n \div 10) \o <<DigitChars[(n % 10) + 1]>>

RECURSIVE Pow10(_)
Pow10(k) == IF k = 0 THEN 1 ELSE 10 * Pow10(k - 1)

\* the last k digits of String(n), padded with zeros
RECURSIVE PadDigits(_, _)
PadDigits(n, k) ==
    IF k = 0 THEN <<>> ELSE PadDigits(n \div 10, k - 1) \o <<DigitChars[(n % 10) + 1]>>

\* Number.prototype.toFixed(k) of a non-negative number x.n / x.d: the nearest
\* multiple of 10^-k, the larger of two equally near; Infinity and NaN are
\* written by name
toFixed(x, k) ==
    IF x.d = 0
    THEN IF x.n = 0 THEN <<"N", "a", "N">>
         ELSE <<"I", "n", "f", "i", "n", "i", "t", "y">>
    ELSE LET scaled == (2 * x.n * Pow10(k) + x.d) \div (2 * x.d)
         IN  String(scaled \div Pow10(k)) \o <<".">> \o PadDigits(scaled % Pow10(k), k)

\* isFinite(term.ROAS) ? term.ROAS.toFixed(2) : '0.00'
roasField(term) ==
    IF isFinite(term.ROAS) THEN toFixed(term.ROAS, 2) ELSE <<"0", ".", "0", "0">>

\* the array built for one term by data.map, every element as String(field)
exportFields(term, mType) ==
    << formatSearchTermByMatchType(term.search_term, mType),
       term.campaign,
       term.ad_group,
       String(term.impr),
       String(term.clicks),
       toFixed(Ratio(term.cost, 1), 2),
       toFixed(Ratio(term.conv, 1), 1),
       toFixed(Ratio(term.value, 1), 2),
       toFixed(term.CTR, 2),
       toFixed(term.CPC, 2),
       toFixed(term.CvR, 2),
       toFixed(term.CPA, 2),
       roasField(term) >>

allRows(data, mType) ==
    <<headers>> \o [i \in 1..Len(data) |-> exportFields(data[i], mType)]

\* stringField.replace(/"/g, '""')
RECURSIVE doubleQuotes(_)
doubleQuotes(text) ==
    IF text = <<>> THEN <<>>
    ELSE (IF Head(text) = Quote THEN <<Quote, Quote>> ELSE <<Head(text)>>)
         \o doubleQuotes(Tail(text))

hasChar(text, c) == \E i \in 1..Len(text) : text[i] = c

\* the callback of row.map in exportSearchTermsToCSV
csvField(stringField) ==
    IF hasChar(stringField, Comma) \/ hasChar(stringField, Quote) \/ hasChar(stringField, Newline)
    THEN <<Quote>> \o doubleQuotes(stringField) \o <<Quote>>
    ELSE stringField

\* Array.prototype.join
RECURSIVE join(_, _)
join(parts, sep) ==
    IF parts = <<>> THEN <<>>
    ELSE IF Len(parts) = 1 THEN parts[1]
    ELSE parts[1] \o <<sep>> \o join(Tail(parts), sep)

\* csvContent of exportSearchTermsToCSV; nothing is written for no data
csvContent(data, mType) ==
    IF data = <<>> THEN <<>>
    ELSE LET rows == allRows(data, mType)
         IN  join([r \in 1..Len(rows) |->
                      join([f \in 1..Len(rows[r]) |-> csvField(rows[r][f])], Comma)],
                  Newline)

prepareForGoogleSheets(data, mType) ==
    IF data = <<>> THEN <<>>
    ELSE LET rows == allRows(data, mType)
         IN  join([r \in 1..Len(rows) |-> join(rows[r], Tab)], Newline)

\* rows given to the export: a plain row, search terms holding a comma, a
\* double quote and a tab, a campaign holding a line break, and a row whose
\* ROAS is not finite
ExportRowPool ==
    << calculateSingleSearchTermMetrics(
           Row(<<"a", "b">>, <<"X">>, <<"G">>, 30, 1, 4, 0, 0)),
       calculateSingleSearchTermMetrics(
           Row(<<"a", Comma, "b">>, <<"X">>, <<"G">>, 10, 2, 4, 1, 8)),
       calculateSingleSearchTermMetrics(
           Row(<<"a", Quote, "b">>, <<"Y">>, <<"G">>, 5, 5, 0, 2, 3)),
       calculateSingleSearchTermMetrics(
           Row(<<"a", Tab, "b">>, <<"X">>, <<"h">>, 7, 3, 2, 1, 5)),
       calculateSingleSearchTermMetrics(
           Row(<<"c">>, <<"X", Newline, "Y">>, <<"h">>, 6, 1, 1, 0, 0)),
       [calculateSingleSearchTermMetrics(
            Row(<<"b">>, <<"Y">>, <<"b">>, 0, 0, 0, 0, 3)) EXCEPT !.ROAS = Ratio(3, 0)] >>

\* the download menu is used with one more row in data
exportDataGrows ==
    /\ Len(exportArgs.data) < MaxExportRows
    /\ \E r \in 1..Len(ExportRowPool) :
           exportArgs' = [exportArgs EXCEPT !.data = Append(@, ExportRowPool[r])]
    /\ UNCHANGED <<termsVars, agVars, treeVars, cardVars, serverVars>>

\* ... and with another match type
exportMatchTypeChanges ==
    /\ \E m \in MatchTypes : exportArgs' = [exportArgs EXCEPT !.matchType = m]
    /\ UNCHANGED <<termsVars, agVars, treeVars, cardVars, serverVars>>

NextExport ==
    \/ exportDataGrows
    \/ exportMatchTypeChanges

SpecExport == Init /\ [][NextExport]_vars

-----------------------------------------------------------------------------
(* TermsPage: MatchTypeSelector and DownloadButton *)

\* MatchTypeSelector onChange={setMatchType} with every field kept but the
\* sort field
setMatchType_AlsoSorts ==
    /\ controlsShown
    /\ \E m \in MatchTypes : matchType' = m
    /\ sortField' = "search_term"
    /\ UNCHANGED <<providerVars, route, sortDirection, currentPage, searchTerm,
                   searchMode, selectedCampaignFilter, selectedAdGroupFilter>>
    /\ UNCHANGED agVars
    /\ UNCHANGED viewVars

\* MatchTypeSelector onChange={setMatchType}
setMatchType ==
    /\ controlsShown
    /\ \E m \in MatchTypes : matchType' = m
    /\ UNCHANGED <<providerVars, route, sortField, sortDirection, currentPage,
                   searchTerm, searchMode, selectedCampaignFilter,
                   selectedAdGroupFilter>>
    /\ UNCHANGED agVars
    /\ UNCHANGED viewVars

\* the records DownloadButton exports: data={sortedTerms} matchType={matchType}
downloadRows == allRows(sortedTerms, matchType)

\* The page with the match type selector, the search box left alone
NextMatchType ==
    \/ refreshData
    \/ fetchDataResolved
    \/ fetchDataRejected
    \/ navigate
    \/ handleSort
    \/ handlePageChange
    \/ handleCampaignFilterChange
    \/ setMatchType

SpecMatchType == Init /\ [][NextMatchType]_vars

-----------------------------------------------------------------------------
(* Properties of the totals row *)

\* the sum of field f over the rows, taken by position
RECURSIVE SumUpTo(_, _, _)
SumUpTo(rows, f, k) == IF k = 0 THEN 0 ELSE SumUpTo(rows, f, k - 1) + rows[k][f]

SumOf(rows, f) == SumUpTo(rows, f, Len(rows))

\* r is the finite number num / den
IsQuotient(r, num, den) == r.d # 0 /\ den # 0 /\ r.n * den = num * r.d

IsZero(r) == r.d # 0 /\ r.n = 0

\* C1: for a non-empty filtered set the totals row's counters are the sums
\* over the filtered rows and its CTR, CPC, CvR, CPA and ROAS are the per-row
\* formulas applied to those sums (so not the mean of the rows' own ratios).
C1_TotalsFromSums ==
    LET rows == filteredSearchTerms
        t == totalsRow
        impr == SumOf(rows, "impr")
        clicks == SumOf(rows, "clicks")
        cost == SumOf(rows, "cost")
        conv == SumOf(rows, "conv")
        value == SumOf(rows, "value")
    IN  rows # <<>> =>
            /\ t # Null
            /\ t.impr = impr /\ t.clicks = clicks /\ t.cost = cost
            /\ t.conv = conv /\ t.value = value
            /\ IF impr > 0 THEN IsQuotient(t.CTR, 100 * clicks, impr) ELSE IsZero(t.CTR)
            /\ IF clicks > 0 THEN IsQuotient(t.CPC, cost, clicks) ELSE IsZero(t.CPC)
            /\ IF clicks > 0 THEN IsQuotient(t.CvR, 100 * conv, clicks) ELSE IsZero(t.CvR)
            /\ IF conv > 0 THEN IsQuotient(t.CPA, cost, conv) ELSE IsZero(t.CPA)
            /\ IF cost > 0 THEN IsQuotient(t.ROAS, value, cost) ELSE IsZero(t.ROAS)

\* several filtered rows whose mean CTR and mean ROAS differ from the totals'
C1_Witness ==
    /\ Len(filteredSearchTerms) >= 2
    /\ totalsRow # Null
    /\ ~RatEqual(totalsRow.CTR, meanRatio(filteredSearchTerms, "CTR"))
    /\ ~RatEqual(totalsRow.ROAS, meanRatio(filteredSearchTerms, "ROAS"))
    /\ totalsRow.impr = SumOf(filteredSearchTerms, "impr")

\* C9: every derived field of the totals row is a finite number >= 0, and is
\* exactly 0 where its divisor is 0: CTR at impr = 0, CPC and CvR at
\* clicks = 0, CPA at conv = 0, ROAS at cost = 0 whatever the value.
C9_DerivedFiniteNonNegative ==
    totalsRow # Null =>
        LET t == totalsRow
        IN  /\ \A f \in DerivedFields : t[f].d > 0 /\ t[f].n >= 0
            /\ t.impr = 0 => IsZero(t.CTR)
            /\ t.clicks = 0 => IsZero(t.CPC) /\ IsZero(t.CvR)
            /\ t.conv = 0 => IsZero(t.CPA)
            /\ t.cost = 0 => IsZero(t.ROAS)

\* totals with no cost but a conversion value: ROAS is 0
C9_Witness ==
    /\ totalsRow # Null
    /\ totalsRow.cost = 0
    /\ totalsRow.value > 0
    /\ IsZero(totalsRow.ROAS)

\* C10: the totals row is null exactly when no row passes the filters; rows
\* whose counters are all zero give a totals row of zeros, not null.
C10_NullIffEmpty ==
    /\ (totalsRow = Null) <=> (Len(filteredSearchTerms) = 0)
    /\ (/\ Len(filteredSearchTerms) > 0
        /\ \A i \in 1..Len(filteredSearchTerms) : \A f \in CounterFields :
               filteredSearchTerms[i][f] = 0)
       => /\ totalsRow # Null
          /\ \A f \in CounterFields : totalsRow[f] = 0
          /\ \A f \in DerivedFields : IsZero(totalsRow[f])

\* a non-empty filtered set of all-zero rows with its zero totals row
C10_Witness ==
    /\ Len(filteredSearchTerms) > 0
    /\ \A i \in 1..Len(filteredSearchTerms) : \A f \in CounterFields :
           filteredSearchTerms[i][f] = 0
    /\ totalsRow # Null
    /\ totalsRow.impr = 0

\* the text search has removed every row and the totals row is null
C10_WitnessEmpty ==
    /\ Len(calculatedSearchTerms) > 0
    /\ Len(filteredSearchTerms) = 0
    /\ totalsRow = Null

-----------------------------------------------------------------------------
(* Properties of the text search *)

Range(seq) == { seq[i] : i \in 1..Len(seq) }

\* the whitespace-separated tokens of q: its maximal runs of non-space characters
Tokens(q) ==
    { SubSeq(q, i, j) : <<i, j>> \in
        { p \in (1..Len(q)) \X (1..Len(q)) :
            /\ p[1] <= p[2]
            /\ \A k \in p[1]..p[2] : q[k] # Space
            /\ (p[1] = 1 \/ q[p[1] - 1] = Space)
            /\ (p[2] = Len(q) \/ q[p[2] + 1] = Space) } }

\* q without its leading and trailing spaces
Stripped(q) ==
    LET ns == { i \in 1..Len(q) : q[i] # Space }
    IN  IF ns = {} THEN <<>>
        ELSE SubSeq(q, CHOOSE i \in ns : \A k \in ns : i <= k,
                       CHOOSE j \in ns : \A k \in ns : k <= j)

\* w occurs in text as a run of consecutive characters
Occurs(w, text) ==
    \E i \in 0..(Len(text) - Len(w)) : \A k \in 1..Len(w) : text[i + k] = w[k]

\* the lowercased text of a row: search term, campaign and ad group
LowerText(row) ==
    toLowerCase(row.search_term) \o <<Space>> \o toLowerCase(row.campaign)
        \o <<Space>> \o toLowerCase(row.ad_group)

QueryTokens == Tokens(toLowerCase(searchTerm))

ContainsEveryToken(row) == \A w \in QueryTokens : Occurs(w, LowerText(row))

ContainsNoToken(row) == \A w \in QueryTokens : ~Occurs(w, LowerText(row))

EqualsAField(row) ==
    Stripped(toLowerCase(searchTerm)) \in
        { toLowerCase(row.search_term), toLowerCase(row.campaign), toLowerCase(row.ad_group) }

\* C6: in mode 'contains' with a non-blank query, a row is kept iff every
\* whitespace-separated token of the lowercased query occurs somewhere in the
\* row's lowercased text (adjacency and order of the tokens do not matter).
C6_ContainsEveryToken ==
    (searchMode = "contains" /\ QueryTokens # {}) =>
        filteredSearchTerms = SelectSeq(calculatedSearchTerms, ContainsEveryToken)

\* a two-token query keeps a row in which the tokens are neither adjacent nor in
\* query order, and drops a row that holds only one of them
C6_Witness ==
    /\ searchMode = "contains"
    /\ Cardinality(QueryTokens) >= 2
    /\ \E i \in 1..Len(filteredSearchTerms) :
           ~Occurs(Stripped(toLowerCase(searchTerm)), LowerText(filteredSearchTerms[i]))
    /\ \E j \in 1..Len(calculatedSearchTerms) :
           /\ \E w \in QueryTokens : Occurs(w, LowerText(calculatedSearchTerms[j]))
           /\ calculatedSearchTerms[j] \notin Range(filteredSearchTerms)

\* C7: in mode 'exact' with a non-blank query, a row is kept iff the trimmed,
\* lowercased query equals its lowercased search term, campaign or ad group; a
\* query that is only part of a field, or equals the joined text, keeps nothing.
C7_ExactEqualsAField ==
    (searchMode = "exact" /\ QueryTokens # {}) =>
        filteredSearchTerms = SelectSeq(calculatedSearchTerms, EqualsAField)

\* a query with spaces around it and other letter case keeps the row whose
\* search term it equals and drops a row that merely contains it
C7_Witness ==
    /\ searchMode = "exact"
    /\ searchTerm # Stripped(toLowerCase(searchTerm))
    /\ \E i \in 1..Len(filteredSearchTerms) :
           toLowerCase(filteredSearchTerms[i].search_term) = Stripped(toLowerCase(searchTerm))
    /\ \E j \in 1..Len(calculatedSearchTerms) :
           /\ Occurs(Stripped(toLowerCase(searchTerm)), LowerText(calculatedSearchTerms[j]))
           /\ calculatedSearchTerms[j] \notin Range(filteredSearchTerms)

\* a query equal to the joined text of a row, which 'exact' does not keep
C7_WitnessJoined ==
    /\ searchMode = "exact"
    /\ \E j \in 1..Len(calculatedSearchTerms) :
           /\ Stripped(toLowerCase(searchTerm)) = LowerText(calculatedSearchTerms[j])
           /\ calculatedSearchTerms[j] \notin Range(filteredSearchTerms)

\* C2 as stated: in mode 'exclude' with a non-blank query the rows kept are
\* exactly the scoped rows that mode 'contains' does not keep for that query.
C2_ExcludeIsComplementOfContains ==
    (searchMode = "exclude" /\ QueryTokens # {}) =>
        LET kept == textSearchFilter(calculatedSearchTerms, searchTerm, "contains")
        IN  /\ Range(filteredSearchTerms) \cap Range(kept) = {}
            /\ Range(filteredSearchTerms) \cup Range(kept) = Range(calculatedSearchTerms)
            /\ Len(filteredSearchTerms) + Len(kept) = Len(calculatedSearchTerms)

\* C2 amended: in mode 'exclude' with a non-blank query the rows kept are
\* exactly the scoped rows that contain none of the query's tokens; they are
\* disjoint from the rows 'contains' keeps, and are the complement of those
\* rows when the query has a single token.
C2_ExcludeKeepsRowsWithNoToken ==
    (searchMode = "exclude" /\ QueryTokens # {}) =>
        LET kept == textSearchFilter(calculatedSearchTerms, searchTerm, "contains")
        IN  /\ filteredSearchTerms = SelectSeq(calculatedSearchTerms, ContainsNoToken)
            /\ Range(filteredSearchTerms) \cap Range(kept) = {}
            /\ Cardinality(QueryTokens) = 1 =>
                   filteredSearchTerms =
                       SelectSeq(calculatedSearchTerms, LAMBDA row : row \notin Range(kept))

\* a query of several tokens in mode 'exclude': one row is kept, another holds
\* some but not all tokens and is kept by neither mode
C2_Witness ==
    /\ searchMode = "exclude"
    /\ Cardinality(QueryTokens) >= 2
    /\ filteredSearchTerms # <<>>
    /\ \E j \in 1..Len(calculatedSearchTerms) :
           /\ ~ContainsEveryToken(calculatedSearchTerms[j])
           /\ ~ContainsNoToken(calculatedSearchTerms[j])
           /\ calculatedSearchTerms[j] \notin Range(filteredSearchTerms)

-----------------------------------------------------------------------------
(* Properties of the filter, sort and page pipeline *)

CountIn(seq, x) == Cardinality({ i \in 1..Len(seq) : seq[i] = x })

\* a raw row passes the campaign filter, the ad-group filter and the text search
PassesAllFilters(row) ==
    /\ selectedCampaignFilter = <<>> \/ row.campaign = selectedCampaignFilter
    /\ selectedAdGroupFilter = <<>> \/ row.ad_group = selectedAdGroupFilter
    /\ \/ Tokens(searchTerm) = {}
       \/ searchPredicate(calculateSingleSearchTermMetrics(row),
                          searchWordsOf(searchTerm), searchTerm, searchMode)

\* C5: the filtered rows are exactly the fetched rows that pass the campaign
\* filter and the ad-group filter and the text search (an unset filter passes
\* every row), in fetched order; the sorted list is a rearrangement of exactly
\* these rows and the page shown is a slice of that sorted list.
C5_FiltersIntersect ==
    LET kept == SelectSeq(searchTermsRaw, PassesAllFilters)
        rows == filteredSearchTerms
        sorted == sortedTerms
        shown == currentPageData
    IN  /\ rows = calculateAllSearchTermMetrics(kept)
        /\ totalRows = Len(kept)
        /\ Len(sorted) = Len(rows)
        /\ \A x \in Range(rows) \cup Range(sorted) : CountIn(sorted, x) = CountIn(rows, x)
        /\ \A k \in 1..Len(shown) : shown[k] = sorted[startIndex + k]

\* all three filters are active; one fetched row passes them all and is shown,
\* another passes the campaign filter but not the ad-group filter
C5_Witness ==
    /\ selectedCampaignFilter # <<>>
    /\ selectedAdGroupFilter # <<>>
    /\ Tokens(searchTerm) # {}
    /\ currentPageData # <<>>
    /\ \E i \in 1..Len(searchTermsRaw) :
           /\ searchTermsRaw[i].campaign = selectedCampaignFilter
           /\ searchTermsRaw[i].ad_group # selectedAdGroupFilter
    /\ \E i \in 1..Len(searchTermsRaw) :
           /\ searchTermsRaw[i].campaign # selectedCampaignFilter
           /\ searchTermsRaw[i].ad_group = selectedAdGroupFilter

\* a sorts strictly before b on field f: by number, or by string comparison
KeyLess(a, b, f) ==
    IF f \in StringFields THEN localeCompare(a[f], b[f]) < 0
    ELSE IF f \in CounterFields THEN a[f] < b[f]
    ELSE a[f].n * b[f].d < b[f].n * a[f].d

KeyEqual(a, b, f) == ~KeyLess(a, b, f) /\ ~KeyLess(b, a, f)

\* C8: the sorted list is a permutation of the filtered rows, in ascending or
\* descending order of the sort field as selected, and rows with equal keys
\* keep the relative order they have in the filtered list.
C8_SortedStablePermutation ==
    LET rows == filteredSearchTerms
        n == Len(rows)
        order == sortOrder(rows, sortField, sortDirection)
        sorted == sortedTerms
    IN  /\ Len(order) = n
        /\ Len(sorted) = n
        /\ { order[k] : k \in 1..n } = 1..n
        /\ \A k \in 1..n : sorted[k] = rows[order[k]]
        /\ \A i \in 1..n : \A j \in (i + 1)..n :
              /\ sortDirection = "asc" => ~KeyLess(sorted[j], sorted[i], sortField)
              /\ sortDirection = "desc" => ~KeyLess(sorted[i], sorted[j], sortField)
              /\ KeyEqual(sorted[i], sorted[j], sortField) => order[i] < order[j]

\* a descending sort that moved a row forward and left two different rows with
\* equal keys in their filtered order
C8_Witness ==
    LET rows == filteredSearchTerms
        n == Len(rows)
        order == sortOrder(rows, sortField, sortDirection)
    IN  /\ sortDirection = "desc"
        /\ \E i \in 1..n : \E j \in (i + 1)..n :
              /\ KeyEqual(sortedTerms[i], sortedTerms[j], sortField)
              /\ sortedTerms[i] # sortedTerms[j]
              /\ order[i] < order[j]
        /\ \E k \in 1..n : order[k] # k

\* an ascending sort on a string field that reordered the rows
C8_WitnessString ==
    /\ sortDirection = "asc"
    /\ sortField \in StringFields
    /\ sortedTerms # filteredSearchTerms

\* C3 as stated: when the current page is past the last page of a non-empty
\* result, the rows shown are those of the last page, never an empty page.
C3_PastLastPageShowsLastPage ==
    (currentPage > totalPages /\ totalRows > 0) =>
        /\ currentPageData = pageSlice(sortedTerms, totalPages)
        /\ currentPageData # <<>>

-----------------------------------------------------------------------------
(* Properties of the providers' fetches *)

\* C4: after a failed fetch the provider starts no fetch by itself, so every
\* call of fetchAdGroupData answers a user action of its own (a page load, a
\* change of the sheet URL or refreshData): the calls issued never outnumber
\* the user actions taken.
C4_OneRequestPerUserAction == agRequests <= agUserActions

-----------------------------------------------------------------------------
(* Properties of the pagination and of handleSort *)

\* the slices of pages 1..n one after the other
RECURSIVE PagesUpTo(_, _)
PagesUpTo(sorted, n) ==
    IF n = 0 THEN <<>> ELSE PagesUpTo(sorted, n - 1) \o pageSlice(sorted, n)

\* C11: totalPages is the ceiling of totalRows / 50 (the least number of pages
\* of 50 that hold every row, 0 for no rows); the slices of pages
\* 1..totalPages hold between 1 and 50 rows each and, one after the other,
\* give the sorted list, every row once.
C11_PagesPartitionSortedTerms ==
    /\ totalPages * ROWS_PER_PAGE >= totalRows
    /\ totalPages > 0 => (totalPages - 1) * ROWS_PER_PAGE < totalRows
    /\ totalRows = 0 => totalPages = 0
    /\ \A p \in 1..totalPages :
           /\ Len(pageSlice(sortedTerms, p)) \in 1..ROWS_PER_PAGE
           /\ \A k \in 1..Len(pageSlice(sortedTerms, p)) :
                  pageSlice(sortedTerms, p)[k] = sortedTerms[(p - 1) * ROWS_PER_PAGE + k]
    /\ PagesUpTo(sortedTerms, totalPages) = sortedTerms

\* a list of more than one page, the last page not full
C11_Witness ==
    /\ totalPages = 2
    /\ totalRows > ROWS_PER_PAGE
    /\ Len(pageSlice(sortedTerms, 2)) < ROWS_PER_PAGE

\* C12: a step of handleSort either keeps the sort field and flips the
\* direction, or selects another field with direction 'asc' when it is
\* search_term, campaign or ad_group and 'desc' when it is numeric.
C12_HandleSortDirection ==
    [][handleSort =>
          \/ /\ sortField' = sortField
             /\ sortDirection' # sortDirection
             /\ sortDirection' \in {"asc", "desc"}
          \/ /\ sortField' # sortField
             /\ sortField' \in {"search_term", "campaign", "ad_group"}
             /\ sortDirection' = "asc"
          \/ /\ sortField' # sortField
             /\ sortField' \notin {"search_term", "campaign", "ad_group"}
             /\ sortDirection' = "desc"]_vars

\* a string field was selected (ascending) and then clicked again
C12_Witness ==
    /\ sortField \in {"search_term", "campaign", "ad_group"}
    /\ sortDirection = "desc"

-----------------------------------------------------------------------------
(* Properties of the tree of SearchTermsTreeView *)

treeRows == treeProps.data

\* the ad groups occurring with campaign c in the rows
AdGroupsOf(c) == { treeRows[i].ad_group : i \in { j \in 1..Len(treeRows) : treeRows[j].campaign = c } }

\* C13: the tree has exactly one campaign node per distinct campaign of the
\* rows and no other, and under each campaign node exactly one ad group node
\* per distinct ad group occurring with that campaign and no other.
C13_OneNodePerCampaignAndAdGroup ==
    LET campaigns == { treeRows[i].campaign : i \in 1..Len(treeRows) }
        tree == treeData
    IN  /\ Len(tree) = Cardinality(campaigns)
        /\ \A c \in campaigns :
               Cardinality({ k \in 1..Len(tree) : tree[k].name = c }) = 1
        /\ \A k \in 1..Len(tree) :
               /\ tree[k].type = "campaign"
               /\ Len(tree[k].children) = Cardinality(AdGroupsOf(tree[k].name))
               /\ \A g \in AdGroupsOf(tree[k].name) :
                      Cardinality({ j \in 1..Len(tree[k].children) :
                                      /\ tree[k].children[j].name = g
                                      /\ tree[k].children[j].type = "adGroup" }) = 1

\* two rows share campaign and ad group, and a third has the same ad group
\* under another campaign
C13_Witness ==
    /\ \E i, j \in 1..Len(treeRows) :
           /\ i # j
           /\ treeRows[i].campaign = treeRows[j].campaign
           /\ treeRows[i].ad_group = treeRows[j].ad_group
    /\ \E i, j \in 1..Len(treeRows) :
           /\ treeRows[i].campaign # treeRows[j].campaign
           /\ treeRows[i].ad_group = treeRows[j].ad_group
    /\ Len(treeData) = 2

\* the leaves carrying row r under campaign node k, ad group node j of a tree
LeavesOf(tree, k, j, r) ==
    { l \in 1..Len(tree[k].children[j].children) :
        tree[k].children[j].children[l].data = r }

\* C14: every row has its own leaf: each leaf is a searchTerm node named by
\* its row's search term with the row as data, under the campaign node and ad
\* group node its row names, and a row occurring n times has n leaves.
C14_OneLeafPerRow ==
    LET tree == treeData
    IN  /\ \A k \in 1..Len(tree) : \A j \in 1..Len(tree[k].children) :
               \A l \in 1..Len(tree[k].children[j].children) :
                   LET leaf == tree[k].children[j].children[l]
                   IN  /\ leaf.type = "searchTerm"
                       /\ leaf.name = leaf.data.search_term
                       /\ leaf.data.campaign = tree[k].name
                       /\ leaf.data.ad_group = tree[k].children[j].name
                       /\ leaf.children = <<>>
                       /\ \E i \in 1..Len(treeRows) : treeRows[i] = leaf.data
        /\ \A i \in 1..Len(treeRows) :
               \E k \in 1..Len(tree) : \E j \in 1..Len(tree[k].children) :
                   Cardinality(LeavesOf(tree, k, j, treeRows[i])) =
                       Cardinality({ m \in 1..Len(treeRows) : treeRows[m] = treeRows[i] })

\* a row given twice, and two rows that differ only in their metrics
C14_Witness ==
    /\ \E i, j \in 1..Len(treeRows) : i # j /\ treeRows[i] = treeRows[j]
    /\ \E i, j \in 1..Len(treeRows) :
           /\ treeRows[i] # treeRows[j]
           /\ treeRows[i].campaign = treeRows[j].campaign
           /\ treeRows[i].ad_group = treeRows[j].ad_group
           /\ treeRows[i].search_term = treeRows[j].search_term

\* names do not decrease along a sequence of nodes
Ascending(nodes) ==
    \A k \in 1..(Len(nodes) - 1) : localeCompare(nodes[k].name, nodes[k + 1].name) <= 0

\* the names of a tree, level by level
NamesOf(tree) ==
    [c \in 1..Len(tree) |->
        [name |-> tree[c].name,
         adGroups |-> [g \in 1..Len(tree[c].children) |->
                          [name |-> tree[c].children[g].name,
                           leaves |-> [l \in 1..Len(tree[c].children[g].children) |->
                                          tree[c].children[g].children[l].name]]]]]

\* the rows of a list in the order of TreeRowPool, each as often as it occurs:
\* the same list for every rearrangement of the rows
RECURSIVE InPoolOrder(_, _)
InPoolOrder(rows, k) ==
    IF k = 0 THEN <<>>
    ELSE InPoolOrder(rows, k - 1) \o
         [i \in 1..Cardinality({ m \in 1..Len(rows) : rows[m] = TreeRowPool[k] }) |->
             TreeRowPool[k]]

\* C15: the campaign nodes, the ad group nodes of each campaign and the
\* leaves of each ad group are in ascending order of name, and the tree has
\* the names, level by level, of the tree built from the same rows given in
\* one fixed order, so that any two rearrangements of the rows agree.
C15_AscendingWhateverTheOrder ==
    LET tree == treeData
    IN  /\ Ascending(tree)
        /\ \A c \in 1..Len(tree) :
               /\ Ascending(tree[c].children)
               /\ \A g \in 1..Len(tree[c].children) :
                      Ascending(tree[c].children[g].children)
        /\ NamesOf(buildTree(InPoolOrder(treeRows, Len(TreeRowPool)))) = NamesOf(tree)

\* rows given with campaigns, ad groups and search terms each out of order
C15_Witness ==
    /\ \E i, j \in 1..Len(treeRows) :
           i < j /\ localeCompare(treeRows[i].campaign, treeRows[j].campaign) > 0
    /\ \E i, j \in 1..Len(treeRows) :
           /\ i < j
           /\ treeRows[i].campaign = treeRows[j].campaign
           /\ localeCompare(treeRows[i].ad_group, treeRows[j].ad_group) > 0
    /\ \E i, j \in 1..Len(treeRows) :
           /\ i < j
           /\ treeRows[i].campaign = treeRows[j].campaign
           /\ treeRows[i].ad_group = treeRows[j].ad_group
           /\ localeCompare(treeRows[i].search_term, treeRows[j].search_term) > 0

\* C16 as stated: a row with an empty campaign is kept, under a campaign node
\* that has a name: no campaign node of the tree has an empty name, and the
\* row's leaf is in the tree.
C16_EmptyCampaignUnderSentinel ==
    \A i \in 1..Len(treeRows) :
        treeRows[i].campaign = <<>> =>
            /\ \A k \in 1..Len(treeData) : treeData[k].name # <<>>
            /\ \E k \in 1..Len(treeData) : \E j \in 1..Len(treeData[k].children) :
                   LeavesOf(treeData, k, j, treeRows[i]) # {}

-----------------------------------------------------------------------------
(* Properties of the ad group cards *)

\* the rows charted by the page: activeData after the date and campaign filters
filteredAdData ==
    getFilteredData(activeData, selectedCampaign, dateRangeOption, customDateRange)

\* the sum of field f over the rows up to position k that carry ad group name g
RECURSIVE SumOfGroupUpTo(_, _, _, _)
SumOfGroupUpTo(rows, f, g, k) ==
    IF k = 0 THEN 0
    ELSE SumOfGroupUpTo(rows, f, g, k - 1) +
         (IF adGroupNameOf(rows[k]) = g THEN rows[k][f] ELSE 0)

RECURSIVE SumOfCardCosts(_, _)
SumOfCardCosts(cards, k) ==
    IF k = 0 THEN 0 ELSE SumOfCardCosts(cards, k - 1) + cards[k].totals.cost

\* C17: every filtered row is on exactly one card, that of its ad group name;
\* a card's cost and conversions are the sums over the filtered rows of its
\* name, its cost per conversion is the cost sum over the conversion sum, or
\* 0 when no conversion was counted; the cards' costs add up to the cost of
\* the filtered rows.
C17_CardTotalsFromSums ==
    LET rows == filteredAdData
        cards == adGroupsWithData
    IN  /\ \A i \in 1..Len(rows) :
               Cardinality({ k \in 1..Len(cards) : cards[k].adGroup = adGroupNameOf(rows[i]) }) = 1
        /\ \A k \in 1..Len(cards) :
               LET cost == SumOfGroupUpTo(rows, "cost", cards[k].adGroup, Len(rows))
                   conv == SumOfGroupUpTo(rows, "conv", cards[k].adGroup, Len(rows))
               IN  /\ cards[k].totals.cost = cost
                   /\ cards[k].totals.conversions = conv
                   /\ Len(cards[k].data) =
                          Cardinality({ i \in 1..Len(rows) :
                                          adGroupNameOf(rows[i]) = cards[k].adGroup })
                   /\ IF conv > 0
                      THEN IsQuotient(cards[k].totals.cost_per_conversion, cost, conv)
                      ELSE IsZero(cards[k].totals.cost_per_conversion)
        /\ SumOfCardCosts(cards, Len(cards)) = SumOf(rows, "cost")

\* a card of two rows whose cost per conversion is that of neither row, next
\* to a card without conversions
C17_Witness ==
    /\ \E k \in 1..Len(adGroupsWithData) :
           /\ Len(adGroupsWithData[k].data) = 2
           /\ adGroupsWithData[k].totals.conversions > 0
           /\ \A i \in 1..2 :
                  ~IsQuotient(adGroupsWithData[k].totals.cost_per_conversion,
                              adGroupsWithData[k].data[i].cost_per_conversion, 1)
    /\ \E k \in 1..Len(adGroupsWithData) : adGroupsWithData[k].totals.conversions = 0
    /\ Len(filteredAdData) < Len(activeData)

-----------------------------------------------------------------------------
(* Properties of the export *)

\* the k-th smallest of a set of positions
Nth(positions, k) ==
    CHOOSE x \in positions : Cardinality({ y \in positions : y < x }) = k - 1

\* the pieces of a text between the given positions
SplitAt(text, positions) ==
    [k \in 1..(Cardinality(positions) + 1) |->
        SubSeq(text,
               IF k = 1 THEN 1 ELSE Nth(positions, k - 1) + 1,
               IF k > Cardinality(positions) THEN Len(text) ELSE Nth(positions, k) - 1)]

\* position i of a CSV text lies inside a quoted field: an odd number of
\* double quotes precede it
InQuotes(text, i) == Cardinality({ j \in 1..(i - 1) : text[j] = Quote }) % 2 = 1

SplitCsv(text, sep) ==
    SplitAt(text, { i \in 1..Len(text) : text[i] = sep /\ ~InQuotes(text, i) })

\* a quoted field without its quotes, its doubled quotes single
Unquoted(field) ==
    IF field = <<>> \/ field[1] # Quote THEN field
    ELSE LET inner == SubSeq(field, 2, Len(field) - 1)
             kept == { i \in 1..Len(inner) : inner[i] # Quote \/ ~InQuotes(inner, i) }
         IN  [k \in 1..Cardinality(kept) |-> inner[Nth(kept, k)]]

\* a CSV text read back: fields in double quotes may hold commas, line breaks
\* and doubled quotes
ReadCsv(text) ==
    LET lines == SplitCsv(text, Newline)
    IN  [r \in 1..Len(lines) |->
            LET fields == SplitCsv(lines[r], Comma)
            IN  [f \in 1..Len(fields) |-> Unquoted(fields[f])]]

\* a tab-separated text read back: lines of fields
ReadTsv(text) ==
    LET lines == SplitAt(text, { i \in 1..Len(text) : text[i] = Newline })
    IN  [r \in 1..Len(lines) |->
            SplitAt(lines[r], { i \in 1..Len(lines[r]) : lines[r][i] = Tab })]

\* the records read are the header and one record per row, in the order of
\* the rows, each of 13 fields, with 0.00 for a ROAS that is not finite
IsExportOf(records, data, mType) ==
    /\ Len(records) = 1 + Len(data)
    /\ \A r \in 1..Len(records) : Len(records[r]) = 13
    /\ records[1] = headers
    /\ \A i \in 1..Len(data) :
           /\ records[i + 1][1] = formatSearchTermByMatchType(data[i].search_term, mType)
           /\ records[i + 1][2] = data[i].campaign
           /\ records[i + 1][3] = data[i].ad_group
           /\ records[i + 1][4] = String(data[i].impr)
           /\ ~isFinite(data[i].ROAS) => records[i + 1][13] = <<"0", ".", "0", "0">>

\* the CSV text of a non-empty list of rows reads back as the header and the
\* rows' records
CsvReadsBack ==
    exportArgs.data # <<>> =>
        IsExportOf(ReadCsv(csvContent(exportArgs.data, exportArgs.matchType)),
                   exportArgs.data, exportArgs.matchType)

\* C18 as stated: for a non-empty list of rows the CSV text and the TSV text
\* each read back as the 13-column header and one record of 13 fields per
\* row, in the order of the rows, whatever characters the texts of the rows
\* hold, with 0.00 for a ROAS that is not finite.
C18_ExportsReadBack ==
    exportArgs.data # <<>> =>
        /\ IsExportOf(ReadCsv(csvContent(exportArgs.data, exportArgs.matchType)),
                      exportArgs.data, exportArgs.matchType)
        /\ IsExportOf(ReadTsv(prepareForGoogleSheets(exportArgs.data, exportArgs.matchType)),
                      exportArgs.data, exportArgs.matchType)

\* the search term as the match type annotates it
Annotated(text, m) ==
    IF m = "phrase" THEN <<Quote>> \o text \o <<Quote>>
    ELSE IF m = "exact" THEN <<"[">> \o text \o <<"]">>
    ELSE text

\* the records exported for the rows are the records exported with 'broad'
\* but for their first field, the search term as match type m annotates it
OnlyAnnotates(rows, m) ==
    \A i \in 1..Len(rows) :
        LET record == exportFields(rows[i], m)
            plain == exportFields(rows[i], "broad")
        IN  /\ record[1] = Annotated(rows[i].search_term, m)
            /\ \A f \in 2..13 : record[f] = plain[f]

\* what the filtered rows, their order, the totals row and the rows of the
\* page are computed from: filteredSearchTerms, sortedTerms, totalsRow and
\* currentPageData are functions of these and of nothing else
displayedFrom ==
    << fetchedData, searchTerm, searchMode, selectedCampaignFilter,
       selectedAdGroupFilter, sortField, sortDirection, currentPage >>

\* C19: the records exported with a match type are the records exported with
\* 'broad' but for their first field, the search term in double quotes for
\* phrase, in square brackets for exact and as it is for broad; and a step
\* that selects a match type leaves the fetched rows, the filters, the sort
\* and the page, hence the filtered rows, their order, the totals row and the
\* rows of the page, as they were.
C19_MatchTypeOnlyAnnotatesExport ==
    /\ [](/\ OnlyAnnotates(sortedTerms, matchType)
          /\ Len(downloadRows) = Len(sortedTerms) + 1)
    /\ [][setMatchType => UNCHANGED displayedFrom]_vars

\* phrase match selected on the second page of a sorted, filtered list
C19_Witness ==
    /\ matchType = "phrase"
    /\ currentPage = 2
    /\ currentPageData # <<>>
    /\ sortField # "cost"

-----------------------------------------------------------------------------
(* AdGroupAnalyzerProvider: the one-hour cache *)

\* the rows of the cache came from the sheet less than an hour ago
cacheFetchedWithinTheHour ==
    lsDataFetchedAt # None /\ now - lsDataFetchedAt.at < oneHour

\* C20: on every page load, rows adopted from the localStorage cache came
\* from the sheet less than one hour earlier; a cache whose rows are older
\* is removed and, with a sheet URL configured, a fetch is started.
C20_AdoptedCacheIsUnderAnHourOld ==
    [][agLoadPage =>
         /\ agFetchedData' # Undefined =>
                /\ agDataFetchedAt' # None
                /\ now - agDataFetchedAt'.at < oneHour
         /\ (lsData # None /\ ~cacheFetchedWithinTheHour) =>
                /\ lsData' = None
                /\ agFetchedData' = Undefined
                /\ agSheetUrl' # "" => (agIsDataLoading' /\ agInFlight' # <<>>)]_vars

-----------------------------------------------------------------------------
(* SettingsProvider: overlapping fetches *)

\* every fetch has completed, and none has failed since the last one started
allFetchesSucceeded ==
    inFlight = 0 /\ fetchedData # Undefined /\ dataError = "null"

\* C21: once every fetch has completed without error, fetchedData holds the
\* response of the most recently requested URL, settings.sheetUrl, whatever
\* the order in which the responses arrived.
C21_LastRequestedUrlWins ==
    allFetchesSucceeded => (fetchedFrom # None /\ fetchedFrom.url = sheetUrl)

\* C22: isDataLoading is true in every state in which a fetch of
\* SettingsProvider is in flight, and false once none remains.
C22_LoadingWhileInFlight ==
    /\ inFlight > 0 => isDataLoading
    /\ inFlight = 0 => ~isDataLoading

\* with no fetch in flight isDataLoading is false
NotLoadingWhenIdle == inFlight = 0 => ~isDataLoading

\* C25: a failed fetch sets dataError and clears isDataLoading and leaves
\* fetchedData as it was; a fetch that starts clears dataError; and after a
\* fetch that succeeds dataError is null and fetchedData is the response.
C25_ErrorSetOnFailureClearedOnStart ==
    [][/\ fetchDataRejected =>
              /\ dataError' = "Error"
              /\ ~isDataLoading'
              /\ fetchedData' = fetchedData
       /\ (refreshData \/ setSheetUrl) => dataError' = "null"
       /\ fetchDataResolved =>
              /\ dataError' = "null"
              /\ fetchedData' # Undefined
              /\ ~isDataLoading']_vars

\* what holds of a fetch that succeeds: the data is the response, and the
\* error of a fetch that failed in the meantime is kept
ResolvedKeepsError ==
    [][/\ fetchDataRejected =>
              /\ dataError' = "Error"
              /\ ~isDataLoading'
              /\ fetchedData' = fetchedData
       /\ (refreshData \/ setSheetUrl) => dataError' = "null"
       /\ fetchDataResolved =>
              /\ dataError' = dataError
              /\ fetchedData' # Undefined
              /\ ~isDataLoading']_vars

-----------------------------------------------------------------------------
(* TermsPage: the page number *)

\* C23: in every state currentPage is between 1 and max(1, totalPages), and
\* the page shown is empty only when there are no filtered rows.
C23_CurrentPageInRange ==
    /\ currentPage \in 1..Max(1, totalPages)
    /\ currentPageData = <<>> => totalRows = 0

\* the state of TermsPage and of the provider but for currentPage
allButCurrentPage ==
    << providerVars, route, sortField, sortDirection, searchTerm, searchMode,
       selectedCampaignFilter, selectedAdGroupFilter, matchType >>

\* C24: every handler that changes the search text, the search mode, the
\* campaign filter, the ad group filter or the sort leaves currentPage equal
\* to 1, and handlePageChange changes currentPage only.
C24_HandlersResetThePage ==
    [][/\ currentPage' = 1 \/
              ~(\/ handleSearchChange
                \/ handleSearchModeChange
                \/ clearSearch
                \/ handleCampaignFilterChange
                \/ handleAdGroupFilterChange
                \/ handleSort)
       /\ UNCHANGED allButCurrentPage \/ ~handlePageChange]_vars

\* the first page of a result of several pages, with a search mode and a sort
\* field other than the initial ones
C24_Witness ==
    /\ controlsShown
    /\ currentPage = 1
    /\ totalPages > 1
    /\ searchMode # "contains"
    /\ sortField # "cost"

-----------------------------------------------------------------------------
(* AdGroupAnalyzerContent: the campaign of a card *)

\* C28: every row charted and summed in a card belongs to the campaign named
\* on the card, whether a campaign is selected or not.
C28_CardRowsBelongToItsCampaign ==
    LET cards == adGroupsWithData
    IN  \A k \in 1..Len(cards) :
            \A i \in 1..Len(cards[k].data) :
                cards[k].data[i].campaign = cards[k].campaign

\* with a campaign selected every row of every card is of that campaign
CardRowsOfSelectedCampaign ==
    LET cards == adGroupsWithData
    IN  selectedCampaign # <<>> =>
            \A k \in 1..Len(cards) :
                /\ cards[k].campaign = selectedCampaign
                /\ \A i \in 1..Len(cards[k].data) :
                       cards[k].data[i].campaign = selectedCampaign

-----------------------------------------------------------------------------
(* scripts/adgroup-web-app-script.js (doGet) and lib/sheetsData              *)
(* (fetchAdGroupData).  A JSON text is the sequence of its tokens:          *)
(* punctuation, strings and numbers; a cell of the sheet is a string or a   *)
(* number.                                                                  *)

Punct(c) == [p |-> c]
Text(chars) == [s |-> chars]
Num(k) == [n |-> k]

Key_ad_group == <<"a", "d", "_", "g", "r", "o", "u", "p">>
Key_campaign == <<"c", "a", "m", "p", "a", "i", "g", "n">>
Key_date == <<"d", "a", "t", "e">>
Key_cost == <<"c", "o", "s", "t">>
Key_conv == <<"c", "o", "n", "v">>
Key_cost_per_conv == <<"c", "o", "s", "t", "_", "p", "e", "r", "_", "c", "o", "n", "v">>
Key_adgroup_target_cpa == <<"a", "d", "g", "r", "o", "u", "p", "_", "t", "a", "r", "g", "e", "t", "_", "c", "p", "a">>

\* the header row the Google Ads script writes to AdGroupDaily
AdGroupHeaders ==
    << Text(Key_ad_group), Text(Key_campaign), Text(Key_date), Text(Key_cost),
       Text(Key_conv), Text(Key_cost_per_conv), Text(Key_adgroup_target_cpa) >>

\* rows of AdGroupDaily: G / X, G / Y and a row of empty and zero cells
SheetRowPool ==
    << <<Text(<<"G">>), Text(<<"X">>), Num(40), Num(4), Num(2), Num(2), Num(3)>>,
       <<Text(<<"G">>), Text(<<"Y">>), Num(40), Num(5), Num(1), Num(5), Num(2)>>,
       <<Text(<<>>), Text(<<>>), Num(20), Num(0), Num(0), Num(0), Num(0)>> >>

\* getDataRange().getValues() of a sheet with no content: one empty cell
EmptySheet == [values |-> << <<Text(<<>>)>> >>]

\* the values of e.parameter.tab: none, 'settings', 'daily', 'AdGroupDaily'
\* and the name of no sheet
Tabs == {"", "settings", "daily", "AdGroupDaily", "Sheet9"}

\* JSON.stringify of an object with the given entries
stringifyObject(entries) ==
    <<Punct("{")>>
    \o join([i \in 1..Len(entries) |-> <<Text(entries[i][1]), Punct(":"), entries[i][2]>>],
            Punct(","))
    \o <<Punct("}")>>

\* JSON.stringify of an array of objects, or of one object
JSONstringify(value) ==
    IF "array" \in DOMAIN value
    THEN <<Punct("[")>>
         \o join([i \in 1..Len(value.array) |-> stringifyObject(value.array[i])],
                 Punct(","))
         \o <<Punct("]")>>
    ELSE stringifyObject(value.object)

\* the object that starts at a position of a JSON text
objectAt(text, start) ==
    LET end == CHOOSE j \in (start + 1)..Len(text) :
                   /\ text[j] = Punct("}")
                   /\ \A l \in (start + 1)..(j - 1) : text[l] # Punct("}")
    IN  [j \in 1..((end - start) \div 4) |->
            <<text[start + 4 * j - 3].s, text[start + 4 * j - 1]>>]

\* JSON.parse of the texts JSONstringify writes
JSONparse(text) ==
    IF text[1] = Punct("[")
    THEN LET opens == { j \in 1..Len(text) : text[j] = Punct("{") }
         IN  [array |-> [k \in 1..Cardinality(opens) |-> objectAt(text, Nth(opens, k))]]
    ELSE [object |-> objectAt(text, 1)]

\* getSettingsData(ss)
settingsData ==
    [array |->
        << << <<<<"S", "e", "t", "t", "i", "n", "g">>, Text(<<"D", "a", "t", "a", " ", "S", "o", "u", "r", "c", "e">>)>>, <<<<"V", "a", "l", "u", "e">>, Text(<<"G", "o", "o", "g", "l", "e", " ", "A", "d", "s", " ", "A", "P", "I", " ", "-", " ", "A", "d", " ", "G", "r", "o", "u", "p", "s">>)>> >>,
           << <<<<"S", "e", "t", "t", "i", "n", "g">>, Text(<<"D", "a", "t", "e", " ", "R", "a", "n", "g", "e">>)>>, <<<<"V", "a", "l", "u", "e">>, Text(<<"L", "a", "s", "t", " ", "1", "2", " ", "M", "o", "n", "t", "h", "s">>)>> >>,
           << <<<<"S", "e", "t", "t", "i", "n", "g">>, Text(<<"L", "a", "s", "t", " ", "U", "p", "d", "a", "t", "e", "d">>)>>, <<<<"V", "a", "l", "u", "e">>, Text(<<"2", "0", "2", "4", "-", "0", "1", "-", "0", "1", "T", "0", "0", ":", "0", "0", ":", "0", "0", ".", "0", "0", "0", "Z">>)>> >>,
           << <<<<"S", "e", "t", "t", "i", "n", "g">>, Text(<<"A", "v", "a", "i", "l", "a", "b", "l", "e", " ", "T", "a", "b", "s">>)>>, <<<<"V", "a", "l", "u", "e">>, Text(<<"A", "d", "G", "r", "o", "u", "p", "D", "a", "i", "l", "y">>)>> >> >>]

\* ContentService.createTextOutput(JSON.stringify([]))
emptyArrayOutput == JSONstringify([array |-> <<>>])

\* the catch block answering with an error object
catchOutput_ErrorObject ==
    JSONstringify([object |-> << <<<<"e", "r", "r", "o", "r">>, Text(<<"E", "r", "r", "o", "r">>)>> >>])

\* the catch block of doGet
catchOutput == emptyArrayOutput

\* ss.getSheetByName(name): the spreadsheet holds AdGroupDaily or no sheet
getSheetByName(app, name) == IF name = "AdGroupDaily" THEN app.sheet ELSE None

\* obj[header] = row[index] for every header
rowObject(hdrs, row) == [i \in 1..Len(hdrs) |-> <<hdrs[i].s, row[i]>>]

\* doGet(e): the text of the answer
doGet(app) ==
    IF app.throws THEN catchOutput
    ELSE LET tabName == IF app.tab = "" THEN "settings" ELSE app.tab
         IN  IF tabName = "settings" THEN JSONstringify(settingsData)
             ELSE LET sheet == getSheetByName(app, IF tabName = "daily"
                                                   THEN "AdGroupDaily" ELSE tabName)
                  IN  IF sheet = None THEN emptyArrayOutput
                      ELSE IF Len(sheet.values) = 0 THEN emptyArrayOutput
                      ELSE LET hdrs == Head(sheet.values)
                               data == Tail(sheet.values)
                           IN  JSONstringify(
                                   [array |-> [i \in 1..Len(data) |->
                                                  rowObject(hdrs, data[i])]])

\* item[key] || fallback: the value of the last entry of that key, the
\* fallback when there is none or when it is '' or 0
fieldOr(item, key, fallback) ==
    LET at == { j \in 1..Len(item) : item[j][1] = key }
    IN  IF at = {} THEN fallback
        ELSE LET cell == item[Nth(at, Cardinality(at))][2]
             IN  IF "n" \in DOMAIN cell
                 THEN (IF cell.n = 0 THEN fallback ELSE cell.n)
                 ELSE (IF cell.s = <<>> THEN fallback ELSE cell.s)

\* fetchAdGroupData after response.json(): the rows it resolves to, or the
\* error it throws
fetchAdGroupData(response) ==
    IF ~response.ok THEN [resolved |-> FALSE]
    ELSE LET rawData == JSONparse(response.text)
         IN  IF "array" \notin DOMAIN rawData THEN [resolved |-> FALSE]
             ELSE [resolved |-> TRUE,
                   data |-> [i \in 1..Len(rawData.array) |->
                               LET item == rawData.array[i]
                               IN  AdMetric(fieldOr(item, Key_ad_group, <<>>),
                                            fieldOr(item, Key_campaign, <<>>),
                                            fieldOr(item, Key_date, <<>>),
                                            fieldOr(item, Key_cost, 0),
                                            fieldOr(item, Key_conv, 0),
                                            fieldOr(item, Key_cost_per_conv, 0),
                                            fieldOr(item, Key_adgroup_target_cpa, 0))]]

\* the answer of the web app as fetch receives it
webAppResponse == [ok |-> TRUE, text |-> doGet(webApp)]

\* a request with another tab parameter
webAppRequest ==
    /\ \E t \in Tabs : webApp' = [webApp EXCEPT !.tab = t]
    /\ UNCHANGED <<termsVars, agVars, treeVars, cardVars, exportVars, insights>>

\* the sheet is created, given its header row or one more row, or deleted
sheetChanges ==
    /\ \/ webApp.sheet = None /\ webApp' = [webApp EXCEPT !.sheet = EmptySheet]
       \/ webApp.sheet = EmptySheet
          /\ webApp' = [webApp EXCEPT !.sheet = [values |-> <<AdGroupHeaders>>]]
       \/ /\ webApp.sheet # None
          /\ webApp.sheet # EmptySheet
          /\ Len(webApp.sheet.values) <= MaxSheetRows
          /\ \E r \in 1..Len(SheetRowPool) :
                 webApp' = [webApp EXCEPT
                               !.sheet = [values |-> Append(webApp.sheet.values,
                                                            SheetRowPool[r])]]
       \/ webApp.sheet # None /\ webApp' = [webApp EXCEPT !.sheet = None]
    /\ UNCHANGED <<termsVars, agVars, treeVars, cardVars, exportVars, insights>>

\* the spreadsheet service starts or stops throwing
serviceFails ==
    /\ webApp' = [webApp EXCEPT !.throws = ~webApp.throws]
    /\ UNCHANGED <<termsVars, agVars, treeVars, cardVars, exportVars, insights>>

NextWebApp ==
    \/ webAppRequest
    \/ sheetChanges
    \/ serviceFails

SpecWebApp == Init /\ [][NextWebApp]_vars

\* C26: doGet answers every request with a JSON array: an unknown tab, a
\* missing sheet, an empty sheet and an exception give the empty array, tab
\* 'daily' is served as tab 'AdGroupDaily' is, and fetchAdGroupData resolves
\* to one row per data row of the sheet.
C26_DoGetAnswersAnArray ==
    LET text == doGet(webApp)
        answer == JSONparse(text)
        result == fetchAdGroupData(webAppResponse)
        noRows == \/ webApp.throws
                  \/ webApp.tab = "Sheet9"
                  \/ /\ webApp.tab \in {"daily", "AdGroupDaily"}
                     /\ webApp.sheet \in {None, EmptySheet}
    IN  /\ "array" \in DOMAIN answer
        /\ noRows => answer.array = <<>>
        /\ webApp.tab = "daily" => text = doGet([webApp EXCEPT !.tab = "AdGroupDaily"])
        /\ (webApp.tab = "AdGroupDaily" /\ ~webApp.throws /\ webApp.sheet # None) =>
               Len(answer.array) = Len(webApp.sheet.values) - 1
        /\ result.resolved
        /\ Len(result.data) = Len(answer.array)

\* tab 'daily' answered with two rows
C26_Witness ==
    /\ webApp.tab = "daily"
    /\ ~webApp.throws
    /\ webApp.sheet # None
    /\ Len(webApp.sheet.values) = 3
    /\ Len(fetchAdGroupData(webAppResponse).data) = 2

\* the spreadsheet service throws while a sheet with rows is requested
C26_WitnessThrows ==
    /\ webApp.throws
    /\ webApp.tab = "AdGroupDaily"
    /\ webApp.sheet # None
    /\ Len(webApp.sheet.values) = 3
    /\ fetchAdGroupData(webAppResponse) = [resolved |-> TRUE, data |-> <<>>]

-----------------------------------------------------------------------------
(* app/api/insights/route.ts: POST.  A request is its body (text that is not *)
(* JSON, the JSON null, or an object) and, for an object, its fields: '' is  *)
(* a string that is absent or empty, data is absent, [], an array of rows or *)
(* a value that is no array.  The provider call returns or throws an error   *)
(* with a status (0: no status property) and a message.                      *)

Bodies == {"malformed", "null", "object"}
Prompts == {"", "prompt"}
DataValues == {"absent", "empty", "rows", "notArray"}
ApiKeys == {"", "key"}
Providers == {"", "openai", "claude", "gemini"}
ProviderOutcomes ==
    {[throws |-> FALSE, status |-> 0, message |-> ""]}
    \cup [throws : {TRUE}, status : {0, 400, 401, 429, 503}, message : {"", "overloaded"}]

\* NextResponse.json({ error }, { status }), no provider called
errorResponse(status, message, called) ==
    [status |-> status, error |-> message, called |-> called]

\* the catch block: the message by status, then error.message, and the
\* status error.status || 500
catchResponse(error, called) ==
    errorResponse(IF error.status # 0 THEN error.status ELSE 500,
                  IF error.status = 401
                  THEN "Invalid API key. Please check your API key."
                  ELSE IF error.status = 429
                  THEN "Rate limit exceeded. Please try again later."
                  ELSE IF error.status = 400
                  THEN "Invalid request. Please check your data and try again."
                  ELSE IF error.message # "" THEN error.message
                  ELSE "Failed to generate insights",
                  called)

\* a SyntaxError of request.json() or a TypeError: no status, a message
internalError == [throws |-> TRUE, status |-> 0, message |-> "TypeError"]

\* !prompt || !data with the apiKey not looked at
missingRequiredFields_NoApiKey(req) ==
    req.prompt = "" \/ req.data = "absent"

\* !prompt || !data || !apiKey
missingRequiredFields(req) ==
    req.prompt = "" \/ req.data = "absent" \/ req.apiKey = ""

\* ['openai', 'claude'].includes(provider)
supportedProvider(req) == req.provider \in {"openai", "claude"}

\* prepareDataSummary(data, context) throws: data.slice or data.map of a
\* value that is no array, context.dataSource of no context
prepareDataSummaryThrows(req) ==
    \/ req.data = "notArray"
    \/ req.data = "rows" /\ ~req.context

\* POST(request): the status, the error of the body ('' when the body holds
\* the insights) and the provider that was called
POST(req) ==
    IF req.body # "object" THEN catchResponse(internalError, "none")
    ELSE IF missingRequiredFields(req)
    THEN errorResponse(400, "Missing required fields: prompt, data, or apiKey", "none")
    ELSE IF ~supportedProvider(req)
    THEN errorResponse(400, "Currently supported providers: OpenAI, Claude", "none")
    ELSE IF prepareDataSummaryThrows(req) THEN catchResponse(internalError, "none")
    ELSE IF req.outcome.throws THEN catchResponse(req.outcome, req.provider)
    ELSE [status |-> 200, error |-> "", called |-> req.provider]

\* a request is posted that differs from the last one in one part
insightsPosted ==
    /\ \/ \E v \in Bodies : insights' = [insights EXCEPT !.body = v]
       \/ \E v \in Prompts : insights' = [insights EXCEPT !.prompt = v]
       \/ \E v \in DataValues : insights' = [insights EXCEPT !.data = v]
       \/ \E v \in ApiKeys : insights' = [insights EXCEPT !.apiKey = v]
       \/ \E v \in Providers : insights' = [insights EXCEPT !.provider = v]
       \/ \E v \in BOOLEAN : insights' = [insights EXCEPT !.context = v]
    /\ UNCHANGED <<termsVars, agVars, treeVars, cardVars, exportVars, webApp>>

\* the provider answers the next call otherwise
providerAnswers ==
    /\ \E v \in ProviderOutcomes : insights' = [insights EXCEPT !.outcome = v]
    /\ UNCHANGED <<termsVars, agVars, treeVars, cardVars, exportVars, webApp>>

NextInsights ==
    \/ insightsPosted
    \/ providerAnswers

SpecInsights == Init /\ [][NextInsights]_vars

C27_WitnessNoKey ==
    /\ insights.body = "object"
    /\ insights.prompt # ""
    /\ insights.data = "rows"
    /\ insights.context
    /\ insights.apiKey = ""
    /\ insights.provider = "openai"
    /\ POST(insights).status = 400

====
